---------------------------- MODULE Spec2Model ----------------------------
(***************************************************************************)
(* HID report-descriptor decoding of the usb_hid_item crate:               *)
(*   - item.rs : the stateless item decoder (Item::parse, item::Parser)    *)
(*   - lib.rs  : the flat stateful interpreter (Parser, StackFrame)        *)
(*   - tree.rs : the tree stateful interpreter (Parser, Tree, Collection)  *)
(* Byte buffers are sequences of numbers 0..255; a Rust slice data[i..] is *)
(* the suffix of the sequence, so data.get(0) is data[1] here.             *)
(***************************************************************************)
EXTENDS Integers, Sequences, FiniteSets, TLC

(***************************************************************************)
(* Bounds of the model.                                                    *)
(***************************************************************************)
\* the length of a descriptor, counted in encoded items drawn from an
\* alphabet; a specification takes descriptors of up to MaxItems items, or a
\* fixed number more
MaxItems == 3
\* how many times the caller may call Parser::iter on one parser
MaxIter == 1
\* how many cursors the caller holds alive at a time
MaxLive == 3
\* the length of a report in bytes
MaxReport == 5

(***************************************************************************)
(* item.rs: tags (Item::INPUT ... Item::DELIMITER) and the long-item prefix *)
(***************************************************************************)
INPUT == 128
OUTPUT == 144
COLLECTION == 160
FEATURE == 176
END_COLLECTION == 192
USAGE_PAGE == 4
LOGI_MIN == 20
LOGI_MAX == 36
PHYS_MIN == 52
PHYS_MAX == 68
UNIT_EXP == 84
UNIT == 100
REPORT_SIZE == 116
REPORT_ID == 132
REPORT_COUNT == 148
PUSH == 164
POP == 180
USAGE == 8
USAGE_MIN == 24
USAGE_MAX == 40
DESIGNATOR_INDEX == 56
DESIGNATOR_MIN == 72
DESIGNATOR_MAX == 88
STRING_INDEX == 120
STRING_MIN == 136
STRING_MAX == 152
DELIMITER == 168
LONG_ITEM_PREFIX == 254

(***************************************************************************)
(* Integer helpers: little-endian assembly and two's complement.           *)
(***************************************************************************)
Pow2(n) == 2 ^ n

\* u16::from_le_bytes / u32::from_le_bytes of the bytes of d (at most 4)
RECURSIVE from_le_bytes(_)
from_le_bytes(d) ==
    IF d = <<>> THEN 0 ELSE d[1] + 256 * from_le_bytes(Tail(d))

\* a reinterpretation that keeps the unsigned number
AsUnsigned(u, w) == u

\* reinterpretation of an unsigned w-bit number as a signed one (as i8/i16/i32)
AsSigned(u, w) == IF u >= Pow2(w - 1) THEN u - Pow2(w) ELSE u

\* a slice data[from..] of a Rust slice (0-based from)
SliceFrom(data, from) == SubSeq(data, from + 1, Len(data))

(***************************************************************************)
(* item.rs: Item and Collection values.  Every item is a record of one     *)
(* shape: t the variant, a and b its numeric payloads, d the raw data of   *)
(* Unknown.                                                                *)
(***************************************************************************)
Item(t, a) == [t |-> t, a |-> a, b |-> 0, d |-> <<>>]
Item2(t, a, b) == [t |-> t, a |-> a, b |-> b, d |-> <<>>]
ItemUnknown(tag, d) == [t |-> "Unknown", a |-> tag, b |-> 0, d |-> d]
NoItem == Item("", 0)

\* Collection::from_raw
Collection_from_raw(raw) ==
    CASE raw = 0 -> <<"Physical", 0>>
      [] raw = 1 -> <<"Application", 0>>
      [] raw = 2 -> <<"Logical", 0>>
      [] raw = 3 -> <<"Report", 0>>
      [] raw = 4 -> <<"NamedArray", 0>>
      [] raw = 5 -> <<"UsageSwitch", 0>>
      [] raw = 6 -> <<"UsageModifier", 0>>
      [] OTHER -> <<"Unknown", raw>>

(***************************************************************************)
(* item.rs: the payload decoders of Item::parse.  Each returns             *)
(* [ok, v]: ok = FALSE is Err(UnexpectedData).                             *)
(***************************************************************************)
DOk(v) == [ok |-> TRUE, v |-> v]
DErr == [ok |-> FALSE, v |-> 0]

d8(d) == IF Len(d) = 1 THEN DOk(d[1]) ELSE DErr
d8u(d) == IF Len(d) = 0 THEN DOk(0) ELSE IF Len(d) = 1 THEN DOk(d[1]) ELSE DErr
d16u(d) == IF Len(d) <= 2 THEN DOk(from_le_bytes(d)) ELSE DErr
d32u(d) == IF Len(d) <= 4 THEN DOk(from_le_bytes(d)) ELSE DErr
\* a decoder of the signed items that zero-extends, as d32u does
d32iUnsigned(d) == IF Len(d) <= 4 THEN DOk(from_le_bytes(d)) ELSE DErr

\* i32::from_le_bytes of four bytes: the top byte counts as a signed one
i32_from_le_bytes(d) ==
    from_le_bytes(SubSeq(d, 1, 3)) + Pow2(24) * AsSigned(d[4], 8)

d32i(d) ==
    CASE Len(d) = 0 -> DOk(0)
      [] Len(d) = 1 -> DOk(AsSigned(d[1], 8))
      [] Len(d) = 2 -> DOk(AsSigned(from_le_bytes(d), 16))
      [] Len(d) = 3 ->
            \* the fourth byte is (c as i8 >> 7): 0xff when c's top bit is set
            DOk(i32_from_le_bytes(Append(d, IF d[3] >= 128 THEN 255 ELSE 0)))
      [] Len(d) = 4 -> DOk(i32_from_le_bytes(d))
      [] OTHER -> DErr
d_empty(d) == IF Len(d) = 0 THEN DOk(0) ELSE DErr

(***************************************************************************)
(* item.rs: Item::parse.  The result is [err, item, rest]: err = "" is     *)
(* Ok((item, rest)); otherwise err is the ParseError.                      *)
(***************************************************************************)
POk(item, rest) == [err |-> "", item |-> item, rest |-> rest]
PErr(e) == [err |-> e, item |-> NoItem, rest |-> <<>>]

\* maps a decoded payload to the item, or to Err(UnexpectedData)
Numeric(t, r, rest) == IF r.ok THEN POk(Item(t, r.v), rest) ELSE PErr("UnexpectedData")

\* the match on tag of Item::parse: d the payload slice, rest = data[1+size..]
ItemOfTag(tag, d, rest) ==
    CASE tag = INPUT -> Numeric("Input", d32u(d), rest)
      [] tag = OUTPUT -> Numeric("Output", d32u(d), rest)
      [] tag = COLLECTION ->
            IF d8u(d).ok
            THEN POk(Item2("Collection", Collection_from_raw(d8u(d).v)[1],
                           Collection_from_raw(d8u(d).v)[2]), rest)
            ELSE PErr("UnexpectedData")
      [] tag = FEATURE -> Numeric("Feature", d32u(d), rest)
      [] tag = END_COLLECTION -> Numeric("EndCollection", d_empty(d), rest)
      [] tag = USAGE_PAGE -> Numeric("UsagePage", d16u(d), rest)
      [] tag = LOGI_MIN -> Numeric("LogicalMin", d32i(d), rest)
      [] tag = LOGI_MAX -> Numeric("LogicalMax", d32i(d), rest)
      [] tag = PHYS_MIN -> Numeric("PhysicalMin", d32i(d), rest)
      [] tag = PHYS_MAX -> Numeric("PhysicalMax", d32i(d), rest)
      [] tag = UNIT_EXP -> Numeric("UnitExponent", d32u(d), rest)
      [] tag = UNIT -> Numeric("Unit", d32u(d), rest)
      [] tag = REPORT_SIZE -> Numeric("ReportSize", d32u(d), rest)
      [] tag = REPORT_ID -> Numeric("ReportId", d8(d), rest)
      [] tag = REPORT_COUNT -> Numeric("ReportCount", d32u(d), rest)
      [] tag = PUSH -> POk(Item("Push", 0), rest)
      [] tag = POP -> POk(Item("Pop", 0), rest)
      [] tag = USAGE ->
            CASE Len(d) <= 2 -> POk(Item("Usage16", from_le_bytes(d)), rest)
              [] Len(d) = 3 ->
                    POk(Item2("Usage32", d[3], from_le_bytes(SubSeq(d, 1, 2))), rest)
              [] Len(d) = 4 ->
                    POk(Item2("Usage32", from_le_bytes(SubSeq(d, 3, 4)),
                              from_le_bytes(SubSeq(d, 1, 2))), rest)
              [] OTHER -> PErr("UnexpectedData")
      [] tag = USAGE_MIN -> Numeric("UsageMin", d16u(d), rest)
      [] tag = USAGE_MAX -> Numeric("UsageMax", d16u(d), rest)
      [] tag = DESIGNATOR_INDEX -> Numeric("DesignatorIndex", d32u(d), rest)
      [] tag = DESIGNATOR_MIN -> Numeric("DesignatorMin", d32u(d), rest)
      [] tag = DESIGNATOR_MAX -> Numeric("DesignatorMax", d32u(d), rest)
      [] tag = STRING_INDEX -> Numeric("StringIndex", d32u(d), rest)
      [] tag = STRING_MIN -> Numeric("StringMin", d32u(d), rest)
      [] tag = STRING_MAX -> Numeric("StringMax", d32u(d), rest)
      [] tag = DELIMITER ->
            \* Delimiter(bool): &[0] => true, &[1] => false
            IF d = <<0>> THEN POk(Item("Delimiter", 1), rest)
            ELSE IF d = <<1>> THEN POk(Item("Delimiter", 0), rest)
            ELSE PErr("UnexpectedData")
      [] OTHER -> POk(ItemUnknown(tag, d), rest)

\* a size that is the low two bits of the prefix themselves
ShortSizeLinear(prefix) == prefix % 4

\* size of a short item: (1 << (prefix & 0b11)) >> 1
ShortSize(prefix) == Pow2(prefix % 4) \div 2

\* a framing that takes d and the rest without looking at the length of data:
\* an item cut short by the end of the buffer is not Truncated
FramingUnchecked(data) ==
    IF Len(data) < 1 \/ (data[1] = LONG_ITEM_PREFIX /\ Len(data) < 3)
    THEN [trunc |-> TRUE, tag |-> 0, size |-> 0, d |-> <<>>, rest |-> <<>>]
    ELSE LET long == data[1] = LONG_ITEM_PREFIX
             size == IF long THEN data[2] ELSE ShortSize(data[1])
             have == IF 1 + size > Len(data) THEN Len(data) ELSE 1 + size
         IN  [trunc |-> FALSE,
              tag |-> IF long THEN data[3] ELSE data[1] - (data[1] % 4),
              size |-> size,
              d |-> SubSeq(data, 2, have),
              rest |-> SliceFrom(data, have)]

\* the framing of Item::parse: prefix, size, tag, then d = data.get(1..1 + size)
\* and the rest data[1 + size..]; trunc when a get(..) finds too few bytes
Framing(data) ==
    LET none == [trunc |-> TRUE, tag |-> 0, size |-> 0, d |-> <<>>, rest |-> <<>>]
    IN  IF Len(data) < 1 THEN none
        ELSE IF data[1] = LONG_ITEM_PREFIX /\ Len(data) < 3 THEN none
        ELSE LET prefix == data[1]
                 long == prefix = LONG_ITEM_PREFIX
                 size == IF long THEN data[2] ELSE ShortSize(prefix)
                 tag == IF long THEN data[3] ELSE prefix - (prefix % 4)
             IN  IF Len(data) < 1 + size THEN none
                 ELSE [trunc |-> FALSE, tag |-> tag, size |-> size,
                       d |-> SubSeq(data, 2, 1 + size),
                       rest |-> SliceFrom(data, 1 + size)]

\* a framing step whose truncation is reported as a payload error
ItemOfFramingLax(fr) ==
    IF fr.trunc THEN PErr("UnexpectedData") ELSE ItemOfTag(fr.tag, fr.d, fr.rest)

\* the item of a framed prefix
ItemOfFraming(fr) ==
    IF fr.trunc THEN PErr("Truncated") ELSE ItemOfTag(fr.tag, fr.d, fr.rest)

Item_parse(data) == ItemOfFraming(Framing(data))

\* item::Parser::next on a parser holding data: "None" at the end of the
\* buffer, otherwise the result of Item::parse (data is kept on an error)
Parser_next(data) ==
    IF data = <<>> THEN [none |-> TRUE, r |-> PErr("")]
    ELSE [none |-> FALSE, r |-> Item_parse(data)]

(***************************************************************************)
(* lib.rs: the state of a StackFrame (global and local state) and the      *)
(* values StackFrame::next returns.  An Option<u16> is <<>> (None) or      *)
(* <<v>> (Some(v)).                                                        *)
(***************************************************************************)
\* StackFrame::new: every field is Default::default()
StackFrame_new ==
    [usage_page |-> 0, logical_min |-> 0, logical_max |-> 0,
     physical_min |-> 0, physical_max |-> 0, report_count |-> 0,
     report_size |-> 0, usage_min |-> <<>>, usage_max |-> <<>>]

\* a copy that forgets the pending usage slots (not what duplicate does)
DuplicateGlobalsOnly(self) ==
    [StackFrame_new EXCEPT !.usage_page = self.usage_page,
        !.logical_min = self.logical_min, !.logical_max = self.logical_max,
        !.physical_min = self.physical_min, !.physical_max = self.physical_max,
        !.report_count = self.report_count, !.report_size = self.report_size]

\* StackFrame::duplicate: a field-by-field copy (inner, the shared parser, is
\* the same reference)
StackFrame_duplicate(self) ==
    [usage_page |-> self.usage_page, logical_min |-> self.logical_min,
     logical_max |-> self.logical_max, physical_min |-> self.physical_min,
     physical_max |-> self.physical_max, report_count |-> self.report_count,
     report_size |-> self.report_size, usage_min |-> self.usage_min,
     usage_max |-> self.usage_max]

\* struct Field
Field(is_input, flags, lmin, lmax, pmin, pmax, count, size) ==
    [is_input |-> is_input, flags |-> flags, logical_min |-> lmin,
     logical_max |-> lmax, physical_min |-> pmin, physical_max |-> pmax,
     report_count |-> count, report_size |-> size]
NoField == Field(FALSE, 0, 0, 0, 0, 0, 0, 0)

\* Option<Result<Value, ParseError>> as one record shape.  k is "None",
\* "Err" (err the ParseError, item the item of UnexpectedItem), or the Value
\* variant: "Collection" (ty), "EndCollection", "Field" (field), "Usage"
\* (page, ids = lo..=hi), "StackFrame" (sf the state of the new frame).
Ret(k) ==
    [k |-> k, err |-> "", item |-> NoItem, ty |-> <<"", 0>>, field |-> NoField,
     page |-> 0, lo |-> 0, hi |-> 0, sf |-> StackFrame_new, bits |-> {}]
RetNone == Ret("None")
RetErr(e, item) == [Ret("Err") EXCEPT !.err = e, !.item = item]
RetCollection(ty) == [Ret("Collection") EXCEPT !.ty = ty]
\* an EndCollection that ends the sequence instead of being a value
RetEndCollectionNone == Ret("None")
RetEndCollection == Ret("EndCollection")
RetField(f) == [Ret("Field") EXCEPT !.field = f]
RetUsage(page, lo, hi) == [Ret("Usage") EXCEPT !.page = page, !.lo = lo, !.hi = hi]
RetStackFrame(sf) == [Ret("StackFrame") EXCEPT !.sf = sf]
\* item.rs: Some(Ok(item)) of the item iterator
RetItem(item) == [Ret("Item") EXCEPT !.item = item]

\* a Field that reports the physical range as stored, with no default
MakeFieldAsStored(self, item) ==
    Field(item.t = "Input", item.a, self.logical_min, self.logical_max,
          self.physical_min, self.physical_max, self.report_count,
          self.report_size)

\* the Field built for Input/Output by both interpreters: the physical range
\* defaults to the logical range when physical_min and physical_max are both 0
MakeField(self, item) ==
    LET dflt == self.physical_min = 0 /\ self.physical_max = 0
    IN  Field(item.t = "Input", item.a, self.logical_min, self.logical_max,
              IF dflt THEN self.logical_min ELSE self.physical_min,
              IF dflt THEN self.logical_max ELSE self.physical_max,
              self.report_count, self.report_size)

\* one turn of the loop body of a next: either the loop goes on with the
\* state self (brk = FALSE) or it breaks with ret
Continue(self) == [brk |-> FALSE, self |-> self, ret |-> RetNone]
Break(self, ret) == [brk |-> TRUE, self |-> self, ret |-> ret]

\* a UsageMin arm that stashes min whatever is pending
UsageMinArmStash(self, min) == Continue([self EXCEPT !.usage_min = <<min>>])

\* the arms of the two interpreters' match that are the same in both: the
\* usage items, the global items and Input/Output.  handled = FALSE: the
\* item falls to the interpreter's own arms
UsageMinArm(self, min) ==
    IF self.usage_max # <<>>
    THEN Break([self EXCEPT !.usage_max = <<>>],
               RetUsage(self.usage_page, min, self.usage_max[1]))
    ELSE Continue([self EXCEPT !.usage_min = <<min>>])

\* a UsageMax arm that reads the pending usage_min without taking it
UsageMaxArmKeep(self, max) ==
    IF self.usage_min # <<>>
    THEN Break(self, RetUsage(self.usage_page, self.usage_min[1], max))
    ELSE Continue([self EXCEPT !.usage_max = <<max>>])

UsageMaxArm(self, max) ==
    IF self.usage_min # <<>>
    THEN Break([self EXCEPT !.usage_min = <<>>],
               RetUsage(self.usage_page, self.usage_min[1], max))
    ELSE Continue([self EXCEPT !.usage_max = <<max>>])

\* a Usage16 arm that flushes the pending usage slots
Usage16ArmFlush(self, u) ==
    Break([self EXCEPT !.usage_min = <<>>, !.usage_max = <<>>],
          RetUsage(self.usage_page, u, u))

Usage16Arm(self, u) == Break(self, RetUsage(self.usage_page, u, u))

\* an Input/Output arm that uses up the report count
FieldArmConsume(self, item) ==
    Break([self EXCEPT !.report_count = 0], RetField(MakeField(self, item)))

\* e @ Item::Input(flags) | e @ Item::Output(flags) => break Some(Ok(Field))
FieldArm(self, item) == Break(self, RetField(MakeField(self, item)))

\* arms of the global items of which UsagePage also clears the pending usage
\* slots and ReportCount also clears report_size
GlobalArmWide(self, item) ==
    CASE item.t = "UsagePage" ->
            Continue([self EXCEPT !.usage_page = item.a, !.usage_min = <<>>,
                                  !.usage_max = <<>>])
      [] item.t = "LogicalMin" -> Continue([self EXCEPT !.logical_min = item.a])
      [] item.t = "LogicalMax" -> Continue([self EXCEPT !.logical_max = item.a])
      [] item.t = "PhysicalMin" -> Continue([self EXCEPT !.physical_min = item.a])
      [] item.t = "PhysicalMax" -> Continue([self EXCEPT !.physical_max = item.a])
      [] item.t = "ReportCount" ->
            Continue([self EXCEPT !.report_count = item.a, !.report_size = 0])
      [] item.t = "ReportSize" -> Continue([self EXCEPT !.report_size = item.a])

\* the arms of the items that assign one global field
GlobalArm(self, item) ==
    CASE item.t = "UsagePage" -> Continue([self EXCEPT !.usage_page = item.a])
      [] item.t = "LogicalMin" -> Continue([self EXCEPT !.logical_min = item.a])
      [] item.t = "LogicalMax" -> Continue([self EXCEPT !.logical_max = item.a])
      [] item.t = "PhysicalMin" -> Continue([self EXCEPT !.physical_min = item.a])
      [] item.t = "PhysicalMax" -> Continue([self EXCEPT !.physical_max = item.a])
      [] item.t = "ReportCount" -> Continue([self EXCEPT !.report_count = item.a])
      [] item.t = "ReportSize" -> Continue([self EXCEPT !.report_size = item.a])

\* an arm that passes a Pop and goes on with the item behind it
PopArmSkip(self) == Continue(self)

\* Item::Pop => break None
PopArm(self) == Break(self, RetNone)

\* an arm that skips the item as ReportId is skipped
UnexpectedArmSkip(self, item) == Continue(self)

\* e => break Some(Err(ParseError::UnexpectedItem(e)))
UnexpectedArm(self, item) == Break(self, RetErr("UnexpectedItem", item))

GlobalItems ==
    {"UsagePage", "LogicalMin", "LogicalMax", "PhysicalMin", "PhysicalMax",
     "ReportCount", "ReportSize"}

(***************************************************************************)
(* lib.rs: StackFrame::next.  StackFrame_match is the match on the item,   *)
(* StackFrame_next the loop around it: data is the content of the shared   *)
(* cell Parser.data, stored back after every decoded item.  The result is  *)
(* [self, data, ret].                                                      *)
(***************************************************************************)
StackFrame_match(self, item) ==
    CASE item.t = "Collection" -> Break(self, RetCollection(<<item.a, item.b>>))
      [] item.t = "EndCollection" -> Break(self, RetEndCollection)
      [] item.t \in GlobalItems -> GlobalArm(self, item)
      [] item.t = "Usage16" -> Usage16Arm(self, item.a)
      [] item.t = "UsageMin" -> UsageMinArm(self, item.a)
      [] item.t = "UsageMax" -> UsageMaxArm(self, item.a)
      [] item.t \in {"Input", "Output"} -> FieldArm(self, item)
      [] item.t = "ReportId" -> Continue(self)
      [] item.t = "Push" -> Break(self, RetStackFrame(StackFrame_duplicate(self)))
      [] item.t = "Pop" -> PopArm(self)
      [] item.t \in {"Unit", "UnitExponent"} -> Continue(self)
      [] OTHER -> UnexpectedArm(self, item)

\* a cell that is never written
StoreCursorNever(cell, itdata) == cell
\* a cell that is given a slice of another buffer
StoreCursorCopy(cell, itdata) == <<0>> \o itdata

\* self.inner.data.set(it.data): the cell after an item was decoded
StoreCursor(cell, itdata) == itdata

\* the loop of next: itdata is the local item parser's data, cell the shared
\* cell Parser.data.  One turn: it = it.next(), then the cell is stored, then
\* m = the match on the item
\* an error that gives the rest of the buffer up
ErrTurnSkip(self, err, cell) ==
    [self |-> self, data |-> <<>>, ret |-> RetErr(err, NoItem)]

\* Err(e) => return Some(Err(e)): the cell is as the items before left it
ErrTurn(self, err, cell) ==
    [self |-> self, data |-> cell, ret |-> RetErr(err, NoItem)]

RECURSIVE StackFrame_loop(_, _, _)
StackFrame_arm(m, rest, stored) ==
    IF m.brk THEN [self |-> m.self, data |-> stored, ret |-> m.ret]
    ELSE StackFrame_loop(m.self, rest, stored)

StackFrame_turn(self, it, cell) ==
    IF it.none THEN [self |-> self, data |-> cell, ret |-> RetNone]
    ELSE IF it.r.err # "" THEN ErrTurn(self, it.r.err, cell)
    ELSE StackFrame_arm(StackFrame_match(self, it.r.item), it.r.rest,
                        StoreCursor(cell, it.r.rest))

StackFrame_loop(self, itdata, cell) ==
    StackFrame_turn(self, Parser_next(itdata), cell)

\* let mut it = item::Parser { data: self.inner.data.get() }; loop { ... }
StackFrame_next(self, data) == StackFrame_loop(self, data, data)

(***************************************************************************)
(* lib.rs: Drop for StackFrame: while matches!(self.next(), Some(Ok(_))).  *)
(* The value of each turn is a temporary dropped before the next turn; a   *)
(* Value::StackFrame is a frame of its own, whose drop drains it first.    *)
(* The result is the content of the shared cell after the drop.            *)
(***************************************************************************)
RECURSIVE StackFrame_drop(_, _)
\* one turn of the while: r is what self.next() gave
StackFrame_drained(r) ==
    IF r.ret.k \in {"None", "Err"} THEN r.data
    ELSE IF r.ret.k = "StackFrame"
    THEN StackFrame_drop(r.self, StackFrame_drop(r.ret.sf, r.data))
    ELSE StackFrame_drop(r.self, r.data)

StackFrame_drop(self, data) == StackFrame_drained(StackFrame_next(self, data))

(***************************************************************************)
(* tree.rs: Tree::next.  The parser state (global and local) lives in the  *)
(* Parser, shared by every Tree and Collection cursor; index is the shared *)
(* Cell<usize>.  An item with no arm reaches todo!(), a panic: k = "Panic".*)
(* The result is [self, index, ret], self the parser's state.              *)
(***************************************************************************)
RetPanic == Ret("Panic")

Tree_match(self, item) ==
    CASE item.t = "Collection" -> Break(self, RetCollection(<<item.a, item.b>>))
      [] item.t = "EndCollection" -> Break(self, RetNone)
      [] item.t \in GlobalItems -> GlobalArm(self, item)
      [] item.t = "Usage16" -> Usage16Arm(self, item.a)
      [] item.t = "UsageMin" -> UsageMinArm(self, item.a)
      [] item.t = "UsageMax" -> UsageMaxArm(self, item.a)
      [] item.t \in {"Input", "Output"} -> FieldArm(self, item)
      [] OTHER -> Break(self, RetPanic)

\* an index cell that is never written
StoreIndexNever(index, data, itdata) == index

\* p.index.set(p.data.len() - it.data.len())
StoreIndex(index, data, itdata) == Len(data) - Len(itdata)

\* one turn of the loop: it = it.next(), then the index is stored, then
\* m = the match on the item
RECURSIVE Tree_loop(_, _, _, _)
Tree_arm(m, rest, stored, data) ==
    IF m.brk THEN [self |-> m.self, index |-> stored, ret |-> m.ret]
    ELSE Tree_loop(m.self, rest, stored, data)

Tree_turn(self, it, index, data) ==
    IF it.none THEN [self |-> self, index |-> index, ret |-> RetNone]
    ELSE IF it.r.err # ""
    THEN [self |-> self, index |-> index, ret |-> RetErr(it.r.err, NoItem)]
    ELSE Tree_arm(Tree_match(self, it.r.item), it.r.rest,
                  StoreIndex(index, data, it.r.rest), data)

Tree_loop(self, itdata, index, data) ==
    Tree_turn(self, Parser_next(itdata), index, data)

\* data: p.data.get(p.index.get()..)? is None past the end of the buffer
Tree_next(self, index, data) ==
    IF index > Len(data) THEN [self |-> self, index |-> index, ret |-> RetNone]
    ELSE Tree_loop(self, SliceFrom(data, index), index, data)

(***************************************************************************)
(* tree.rs: Drop for Collection: while matches!(self.next(), Some(Ok(_))). *)
(* A Value::Collection of a turn is a temporary whose own drop drains it.  *)
(* The result is [self, index, panic].                                     *)
(***************************************************************************)
RECURSIVE Collection_drop(_, _, _)
\* the while goes on after the temporary Collection of a turn was dropped
Collection_after(c, data) ==
    IF c.panic THEN c ELSE Collection_drop(c.self, c.index, data)

\* one turn of the while: r is what self.next() gave
Collection_drained(r, data) ==
    IF r.ret.k = "Panic" THEN [self |-> r.self, index |-> r.index, panic |-> TRUE]
    ELSE IF r.ret.k \in {"None", "Err"}
    THEN [self |-> r.self, index |-> r.index, panic |-> FALSE]
    ELSE IF r.ret.k = "Collection"
    THEN Collection_after(Collection_drop(r.self, r.index, data), data)
    ELSE Collection_drop(r.self, r.index, data)

Collection_drop(self, index, data) ==
    Collection_drained(Tree_next(self, index, data), data)

(***************************************************************************)
(* The state of one parser and of the cursors the caller holds.            *)
(*   mode     "flat" (lib.rs), "tree" (tree.rs) or "item" (item.rs): which *)
(*            parser was built; "extract": no parser, a report is read     *)
(*   buf      the buffer given to parse(); in mode "extract" the report    *)
(*   pdata    lib.rs Parser.data, the shared cell: the slice not yet read; *)
(*            item.rs Parser.data                                          *)
(*   index    tree.rs Parser.index, the shared cell                        *)
(*   pst      tree.rs Parser: its global and local state cells             *)
(*   frames   the cursors handed to the caller, in order of creation:      *)
(*            live   not dropped yet                                       *)
(*            kind   "StackFrame", "Tree" or "Collection"                  *)
(*            st     the fields of a StackFrame                            *)
(*            parent the cursor whose next returned it (0: from iter)      *)
(*            born   bytes left in the buffer when it was created          *)
(*            done   its next has returned end-of-sequence                 *)
(*            quiet, atPush   its last call returned a StackFrame, and its *)
(*                   state at that moment                                  *)
(*            trail  lib.rs: the trail of the frame (history)              *)
(*   ret      the caller's last call: op, the cursor, the bytes left       *)
(*            before it, the value v it returned, the cursor it handed out *)
(*   iters    calls of Parser::iter so far                                 *)
(*   panicked a todo!() was reached                                        *)
(*   nested   the caller has so far used the cursors as nested scopes:     *)
(*            one iter, a cursor is advanced or dropped only when every    *)
(*            cursor handed out below it is closed, and never after it     *)
(*            returned end-of-sequence (history, not program state)        *)
(*   ptrail   tree.rs: the trail of the parser (see Trail below; history)    *)
(*   scoped   the same, but cursors that returned end-of-sequence may have *)
(*            been dropped, as they are when they go out of scope          *)
(***************************************************************************)
VARIABLES mode, buf, pdata, index, pst, frames, ret, iters, panicked, nested,
          scoped, ptrail

vars ==
    <<mode, buf, pdata, index, pst, frames, ret, iters, panicked, nested, scoped,
      ptrail>>

\* bytes of the buffer not yet read
Left == IF mode = "tree" THEN Len(buf) - index ELSE Len(pdata)

Frame(kind, st, parent, born) ==
    [live |-> TRUE, kind |-> kind, st |-> st, parent |-> parent, born |-> born,
     done |-> FALSE, quiet |-> FALSE, atPush |-> StackFrame_new, trail |-> <<>>]

Call(op, f, from, v, child) ==
    [op |-> op, frame |-> f, from |-> from, v |-> v, child |-> child]

Live == {f \in DOMAIN frames : frames[f].live}

\* a is the cursor that handed out c, or one that handed out an ancestor of c
RECURSIVE IsAncestor(_, _)
IsAncestor(a, c) ==
    /\ c # 0
    /\ frames[c].parent # 0
    /\ (frames[c].parent = a \/ IsAncestor(a, frames[c].parent))

\* a cursor is open until it returned end-of-sequence or was dropped
Open(c) == frames[c].live /\ ~frames[c].done

HasOpenDescendant(f) == \E c \in DOMAIN frames : Open(c) /\ IsAncestor(f, c)

\* the call next or drop on f keeps to the nesting of the scopes
NestedUse(f) == Open(f) /\ ~HasOpenDescendant(f)

\* dropping f keeps to the scopes: nothing below it is still open
ScopedDrop(f) == frames[f].live /\ ~HasOpenDescendant(f)

(***************************************************************************)
(* Descriptors: concatenations of at most n encoded items of an alphabet.  *)
(***************************************************************************)
RECURSIVE Descriptors(_, _)
Descriptors(alphabet, n) ==
    IF n = 0 THEN {<<>>}
    ELSE {<<>>} \cup {e \o d : e \in alphabet, d \in Descriptors(alphabet, n - 1)}

\* lib.rs parse(data) / tree.rs parse(data): the parser right after construction
InitWith(modes, alphabet, n) ==
    /\ mode \in modes
    /\ buf \in Descriptors(alphabet, n)
    /\ pdata = IF mode = "tree" THEN <<>> ELSE buf
    /\ index = 0
    /\ pst = StackFrame_new
    /\ frames = <<>>
    /\ ret = Call("parse", 0, Len(buf), RetNone, 0)
    /\ iters = 0
    /\ panicked = FALSE
    /\ nested = TRUE
    /\ scoped = TRUE
    /\ ptrail = <<>>

(***************************************************************************)
(* lib.rs: the caller's operations on a flat parser.                       *)
(***************************************************************************)
\* Parser::iter(&mut self): needs the parser unborrowed, so no cursor alive
FlatIter ==
    /\ mode = "flat" /\ Live = {} /\ iters < MaxIter
    /\ frames' = Append(frames, Frame("StackFrame", StackFrame_new, 0, Left))
    /\ ret' = Call("iter", Len(frames) + 1, Left, RetNone, 0)
    /\ iters' = iters + 1
    /\ nested' = (nested /\ iters = 0)
    /\ scoped' = (scoped /\ iters = 0)
    /\ UNCHANGED <<mode, buf, pdata, index, pst, panicked, ptrail>>

(***************************************************************************)
(* The trail of a cursor's state (a flat frame's own, the tree parser's    *)
(* shared one): the UsageMin and UsageMax items that state has processed   *)
(* since its last Main item, each with what its arrival did.               *)
(*   kind, val  the item                                                   *)
(*   clean      no usage slot was pending when it arrived                  *)
(*   page       the usage page when it arrived                             *)
(*   out        <<page, lo, hi>> of the Usage its arm returned, or <<>>    *)
(*   cleared    both usage slots were empty after its arm                  *)
(***************************************************************************)
MainItems == {"Input", "Output", "Feature", "Collection", "EndCollection"}

\* the interpreter's match of the parser that was built
Match(self, item) ==
    IF mode = "flat" THEN StackFrame_match(self, item) ELSE Tree_match(self, item)

\* the bytes of buf from the cursor on
Suffix(n) == SliceFrom(buf, Len(buf) - n)

TrailEntry(self, item, m) ==
    [kind |-> item.t, val |-> item.a,
     clean |-> self.usage_min = <<>> /\ self.usage_max = <<>>,
     page |-> self.usage_page,
     out |-> IF m.ret.k = "Usage" THEN <<m.ret.page, m.ret.lo, m.ret.hi>> ELSE <<>>,
     cleared |-> m.self.usage_min = <<>> /\ m.self.usage_max = <<>>]

\* the trail tr of a state self after it processed the items of data that
\* end with at least left bytes to go
RECURSIVE TrailAfter(_, _, _, _)
\* the trail after the item r.item, whose match gave m
TrailMatched(tr, self, r, m, left) ==
    TrailAfter(CASE r.item.t \in {"UsageMin", "UsageMax"} ->
                       Append(tr, TrailEntry(self, r.item, m))
                 [] r.item.t \in MainItems -> <<>>
                 [] OTHER -> tr,
               m.self, r.rest, left)

TrailParsed(tr, self, r, left) ==
    IF r.err # "" THEN tr ELSE TrailMatched(tr, self, r, Match(self, r.item), left)

TrailAfter(tr, self, data, left) ==
    IF Len(data) <= left THEN tr ELSE TrailParsed(tr, self, Item_parse(data), left)

\* the frame f after its next returned r
FrameAfterNext(fr, r) ==
    [fr EXCEPT !.st = r.self,
               !.done = fr.done \/ r.ret.k = "None",
               !.quiet = r.ret.k = "StackFrame",
               !.atPush = IF r.ret.k = "StackFrame" THEN r.self ELSE fr.atPush,
               !.trail = IF mode = "flat"
                         THEN TrailAfter(fr.trail, fr.st, pdata, Len(r.data))
                         ELSE <<>>]

\* cursors that keep one state between them, as tree.rs does and lib.rs does
\* not: what f's next did to its state shows in the frame that handed f out
FramesAfterNextShared(f, r, left) ==
    LET upd == [frames EXCEPT ![f] = FrameAfterNext(frames[f], r)]
        p == frames[f].parent
        shared == IF p = 0 THEN upd ELSE [upd EXCEPT ![p].st = r.self]
    IN  IF r.ret.k = "StackFrame"
        THEN Append(shared, Frame("StackFrame", r.ret.sf, f, left))
        ELSE shared

\* the cursors after cursor f's next returned r: a Value::StackFrame (lib.rs)
\* or a Value::Collection of tree.rs is a new cursor, owned by the caller; the
\* Value::Collection of lib.rs holds the collection's type only
FramesAfterNext(f, r, left) ==
    LET upd == [frames EXCEPT ![f] = FrameAfterNext(frames[f], r)]
    IN  CASE r.ret.k = "StackFrame" ->
                Append(upd, Frame("StackFrame", r.ret.sf, f, left))
          [] r.ret.k = "Collection" /\ mode = "tree" ->
                Append(upd, Frame("Collection", StackFrame_new, f, left))
          [] OTHER -> upd

\* the value of r is a new cursor
IsCursor(r) == r.ret.k = "StackFrame" \/ (r.ret.k = "Collection" /\ mode = "tree")

\* the caller has room for the cursor a call may hand out
Room(r) == IsCursor(r) => Cardinality(Live) < MaxLive

HandedOut(r) == IF IsCursor(r) THEN Len(frames) + 1 ELSE 0

\* a call of next that leaves the shared cell as it found it
FlatNextGavePeek(f, r) ==
    /\ Room(r)
    /\ pdata' = pdata
    /\ frames' = FramesAfterNext(f, r, Len(r.data))
    /\ ret' = Call("next", f, Left, r.ret, HandedOut(r))

\* StackFrame::next on the live frame f
FlatNextGave(f, r) ==
    /\ Room(r)
    /\ pdata' = r.data
    /\ frames' = FramesAfterNext(f, r, Len(r.data))
    /\ ret' = Call("next", f, Left, r.ret, HandedOut(r))

FlatNext(f) ==
    /\ mode = "flat" /\ f \in Live
    /\ FlatNextGave(f, StackFrame_next(frames[f].st, pdata))
    /\ nested' = (nested /\ NestedUse(f))
    /\ scoped' = (scoped /\ NestedUse(f))
    /\ UNCHANGED <<mode, buf, index, pst, iters, panicked, ptrail>>

\* a dropped cursor
Dropped(fr) == [Frame(fr.kind, StackFrame_new, fr.parent, 0) EXCEPT !.live = FALSE]

\* the caller drops the live frame f: Drop for StackFrame
FlatDrop(f) ==
    /\ mode = "flat" /\ f \in Live
    /\ pdata' = StackFrame_drop(frames[f].st, pdata)
    /\ frames' = [frames EXCEPT ![f] = Dropped(frames[f])]
    /\ ret' = Call("drop", f, Left, RetNone, 0)
    /\ nested' = (nested /\ NestedUse(f))
    /\ scoped' = (scoped /\ ScopedDrop(f))
    /\ UNCHANGED <<mode, buf, index, pst, iters, panicked, ptrail>>

(***************************************************************************)
(* tree.rs: the caller's operations on a tree parser.                      *)
(***************************************************************************)
\* Parser::iter(&mut self): Tree { inner: self }
TreeIter ==
    /\ mode = "tree" /\ Live = {} /\ iters < MaxIter /\ ~panicked
    /\ frames' = Append(frames, Frame("Tree", StackFrame_new, 0, Left))
    /\ ret' = Call("iter", Len(frames) + 1, Left, RetNone, 0)
    /\ iters' = iters + 1
    /\ nested' = (nested /\ iters = 0)
    /\ scoped' = (scoped /\ iters = 0)
    /\ UNCHANGED <<mode, buf, pdata, index, pst, panicked, ptrail>>

\* Tree::next / Collection::next on the live cursor c
TreeNextGave(c, r) ==
    /\ Room(r)
    /\ pst' = r.self
    /\ index' = r.index
    /\ panicked' = (r.ret.k = "Panic")
    /\ ptrail' = TrailAfter(ptrail, pst, Suffix(Left), Len(buf) - r.index)
    /\ frames' = FramesAfterNext(c, [r EXCEPT !.self = StackFrame_new],
                                 Len(buf) - r.index)
    /\ ret' = Call("next", c, Left, r.ret, HandedOut(r))

TreeNext(c) ==
    /\ mode = "tree" /\ c \in Live /\ ~panicked
    /\ TreeNextGave(c, Tree_next(pst, index, buf))
    /\ nested' = (nested /\ NestedUse(c))
    /\ scoped' = (scoped /\ NestedUse(c))
    /\ UNCHANGED <<mode, buf, pdata, iters>>

\* the caller drops the live cursor c: Drop for Collection drains it, a Tree
\* has no Drop
TreeDropGave(r) ==
    /\ pst' = r.self
    /\ index' = r.index
    /\ panicked' = r.panic
    /\ ptrail' = TrailAfter(ptrail, pst, Suffix(Left), Len(buf) - r.index)

TreeDrop(c) ==
    /\ mode = "tree" /\ c \in Live /\ ~panicked
    /\ TreeDropGave(IF frames[c].kind = "Collection"
                    THEN Collection_drop(pst, index, buf)
                    ELSE [self |-> pst, index |-> index, panic |-> FALSE])
    /\ frames' = [frames EXCEPT ![c] = Dropped(frames[c])]
    /\ ret' = Call("drop", c, Left, RetNone, 0)
    /\ nested' = (nested /\ NestedUse(c))
    /\ scoped' = (scoped /\ ScopedDrop(c))
    /\ UNCHANGED <<mode, buf, pdata, iters>>

(***************************************************************************)
(* item.rs: the caller's operation on the item iterator of item::parse.    *)
(***************************************************************************)
\* item::Parser::next gave it: the data moves behind the item when one was
\* decoded and stays on an error
ItemNextGave(it) ==
    /\ pdata' = IF it.none \/ it.r.err # "" THEN pdata ELSE it.r.rest
    /\ ret' = Call("next", 0, Left,
                   IF it.none THEN RetNone
                   ELSE IF it.r.err # "" THEN RetErr(it.r.err, NoItem)
                   ELSE RetItem(it.r.item),
                   0)

ItemNext ==
    /\ mode = "item"
    /\ ItemNextGave(Parser_next(pdata))
    /\ UNCHANGED <<mode, buf, index, pst, frames, iters, panicked, nested,
                   scoped, ptrail>>

NextItem == ItemNext

NextFlat ==
    \/ FlatIter
    \/ \E f \in DOMAIN frames : FlatNext(f)
    \/ \E f \in DOMAIN frames : FlatDrop(f)

NextTree ==
    \/ TreeIter
    \/ \E c \in DOMAIN frames : TreeNext(c)
    \/ \E c \in DOMAIN frames : TreeDrop(c)

Next == NextFlat \/ NextTree

(***************************************************************************)
(* Encoded items the descriptors are built from.                           *)
(***************************************************************************)
\* UsagePage(3) ReportCount(7), UsageMin(1), Usage16(2), Input, Push, Pop
ScopeAlphabet ==
    {<<5, 3, 149, 7>>, <<25, 1>>, <<9, 2>>, <<128>>, <<164>>, <<180>>}

\* a flat parser over Push/Pop scopes
InitScope == InitWith({"flat"}, ScopeAlphabet, MaxItems + 1)
SpecScope == InitScope /\ [][NextFlat]_vars

\* Push, Pop, Usage16(2): scopes within scopes, in longer descriptors
DrainAlphabet == {<<164>>, <<180>>, <<9, 2>>}
InitDrain == InitWith({"flat"}, DrainAlphabet, MaxItems + 2)
SpecDrain == InitDrain /\ [][NextFlat]_vars

\* Push, Pop, Collection(Application), EndCollection, Usage16(2), and items
\* that fail: Delimiter(true) (no arm in either interpreter), a Delimiter
\* with data 2 (UnexpectedData), a Usage prefix that lacks its data byte at
\* the end of the buffer (Truncated)
CursorAlphabet ==
    {<<164>>, <<180>>, <<161, 1>>, <<192>>, <<9, 2>>, <<169, 0>>, <<169, 2>>, <<9>>}
Init == InitWith({"flat", "tree"}, CursorAlphabet, MaxItems + 1)
Spec == Init /\ [][Next]_vars

\* LogicalMin(-1) LogicalMax(9), PhysicalMin(2), PhysicalMax(4),
\* PhysicalMin(0), Input(2), Output(0), Collection(Application), Push
FieldAlphabet ==
    {<<21, 255, 37, 9>>, <<53, 2>>, <<69, 4>>, <<53, 0>>, <<129, 2>>, <<145, 0>>,
     <<161, 1>>, <<164>>}
InitField == InitWith({"flat", "tree"}, FieldAlphabet, MaxItems)
SpecField == InitField /\ [][Next]_vars

\* UsageMin(1), UsageMax(3), Usage16(4), UsagePage(3), Input(2),
\* Collection(Application), Push, and Push UsageMax(3) as one
UsageAlphabet ==
    {<<25, 1>>, <<41, 3>>, <<9, 4>>, <<5, 3>>, <<129, 2>>, <<161, 1>>, <<164>>,
     <<164, 41, 3>>}
InitUsage == InitWith({"flat", "tree"}, UsageAlphabet, MaxItems)
SpecUsage == InitUsage /\ [][Next]_vars

(***************************************************************************)
(* What a descriptor means, read off the buffer alone (HID 1.11, 6.2.2.7): *)
(* the global state in effect after a prefix of the items, Push saving it  *)
(* and Pop restoring what the matching Push saved.                         *)
(***************************************************************************)
\* the stack of global states after the items of data that end with at least
\* left bytes to go; stack[Len(stack)] is the state in effect
RECURSIVE ScopedGlobals(_, _, _)
ScopedGlobals(data, left, stack) ==
    IF Len(data) <= left \/ Item_parse(data).err # "" THEN stack
    ELSE LET r == Item_parse(data)
             top == stack[Len(stack)]
         IN  ScopedGlobals(r.rest, left,
                CASE r.item.t \in GlobalItems ->
                        [stack EXCEPT ![Len(stack)] = GlobalArm(top, r.item).self]
                  [] r.item.t = "Push" -> Append(stack, top)
                  [] r.item.t = "Pop" /\ Len(stack) > 1 -> SubSeq(stack, 1, Len(stack) - 1)
                  [] OTHER -> stack)

\* the global state in effect where left bytes of buf are to go
GlobalsAt(left) ==
    LET stack == ScopedGlobals(buf, left, <<StackFrame_new>>)
    IN  stack[Len(stack)]

SameGlobals(a, b) ==
    /\ a.usage_page = b.usage_page
    /\ a.logical_min = b.logical_min /\ a.logical_max = b.logical_max
    /\ a.physical_min = b.physical_min /\ a.physical_max = b.physical_max
    /\ a.report_count = b.report_count /\ a.report_size = b.report_size

\* the last call was a next that returned a value of kind k
Returned(k) == ret.op = "next" /\ ret.v.k = k

\* the state the value of the last call was built from
StateOf(f) == IF mode = "flat" THEN frames[f].st ELSE pst

(***************************************************************************)
(* C1  Push/Pop state isolation (flat model): what a nested StackFrame     *)
(* does never reaches the frame that handed it out.  (a) From the Push     *)
(* until its own next call, a frame's state is its state at the Push,      *)
(* whatever its nested frames processed.  (b) Every Usage and Field a      *)
(* frame returns is built from that frame's own state.  (c) When the       *)
(* caller drains each nested frame before it pulls from the parent, every  *)
(* Usage and Field carries the global state in effect at its item under    *)
(* Push/Pop scoping of the descriptor: a value set between a Push and its  *)
(* Pop is never seen after the Pop.                                        *)
(***************************************************************************)
C1_PushPopIsolation ==
    /\ \A p \in Live : frames[p].quiet => frames[p].st = frames[p].atPush
    /\ Returned("Usage") => ret.v.page = frames[ret.frame].st.usage_page
    /\ Returned("Field") =>
          /\ ret.v.field.logical_min = frames[ret.frame].st.logical_min
          /\ ret.v.field.logical_max = frames[ret.frame].st.logical_max
          /\ ret.v.field.report_count = frames[ret.frame].st.report_count
          /\ ret.v.field.report_size = frames[ret.frame].st.report_size
    /\ nested /\ Returned("Usage") => ret.v.page = GlobalsAt(Left).usage_page
    /\ nested /\ Returned("Field") =>
          /\ ret.v.field.logical_min = GlobalsAt(Left).logical_min
          /\ ret.v.field.logical_max = GlobalsAt(Left).logical_max
          /\ ret.v.field.report_count = GlobalsAt(Left).report_count
          /\ ret.v.field.report_size = GlobalsAt(Left).report_size

\* a parent returns a Usage on page 0, its page at the Push, after its nested
\* frame set page 3 and was drained to the Pop
C1_Witness ==
    /\ nested /\ Returned("Usage") /\ ret.v.page = 0
    /\ \E c \in Live :
          /\ frames[c].parent = ret.frame /\ frames[c].done
          /\ frames[c].st.usage_page = 3
          /\ frames[ret.frame].atPush.usage_page = 0

(***************************************************************************)
(* C2  Push snapshot (flat model): when next returns a StackFrame for a    *)
(* Push item, the new frame's seven global fields and its two pending      *)
(* usage slots equal the emitting frame's at that moment, the new frame    *)
(* reads from the same byte cursor, which stands right behind the Push,    *)
(* and the Push leaves the emitting frame's state as it was: processing a  *)
(* Push changes no field, and under nested use the emitter still holds the *)
(* globals in effect just before the Push.                                 *)
(***************************************************************************)
C2_PushSnapshot ==
    /\ \A f \in Live :
          LET m == StackFrame_match(frames[f].st, Item("Push", 0))
          IN  /\ m.brk /\ m.ret.k = "StackFrame"
              /\ m.self = frames[f].st
              /\ m.ret.sf = frames[f].st
    /\ Returned("StackFrame") =>
          /\ ret.child \in Live
          /\ frames[ret.child].parent = ret.frame
          /\ frames[ret.child].st = ret.v.sf
          /\ ret.v.sf = frames[ret.frame].st
          /\ frames[ret.child].born = Left
          /\ Left < ret.from
          /\ buf[Len(buf) - Left] = PUSH
          /\ nested => SameGlobals(frames[ret.frame].st, GlobalsAt(Left + 1))

\* a Push met with page 3, count 7 and a pending UsageMin(1): the new frame
\* holds all three
C2_Witness ==
    /\ Returned("StackFrame")
    /\ frames[ret.child].st.usage_page = 3
    /\ frames[ret.child].st.report_count = 7
    /\ frames[ret.child].st.usage_min = <<1>>
    /\ frames[ret.frame].st.usage_min = <<1>>

(***************************************************************************)
(* The scope of a nested cursor, read off the buffer: it opens behind its  *)
(* Push (flat) or Collection (tree) item and closes behind the matching    *)
(* Pop or EndCollection, or at the end of the buffer.                      *)
(***************************************************************************)
Opener == IF mode = "flat" THEN PUSH ELSE COLLECTION
Closer == IF mode = "flat" THEN POP ELSE END_COLLECTION

\* bytes left behind the closer of the scope data starts in, depth scopes
\* being open inside it
RECURSIVE ScopeScan(_, _)
ScopeScan(data, depth) ==
    LET fr == Framing(data)
    IN  IF data = <<>> \/ fr.trunc THEN 0
        ELSE IF fr.tag = Opener THEN ScopeScan(fr.rest, depth + 1)
        ELSE IF fr.tag = Closer
        THEN IF depth = 0 THEN Len(fr.rest) ELSE ScopeScan(fr.rest, depth - 1)
        ELSE ScopeScan(fr.rest, depth)

\* bytes left where the scope of cursor f closes
ScopeEnd(f) == ScopeScan(Suffix(frames[f].born), 0)

\* every item of data that ends with at least left bytes to go decodes and
\* has an arm in the interpreter
RECURSIVE DecodesClean(_, _)
DecodesClean(data, left) ==
    \/ Len(data) <= left
    \/ LET r == Item_parse(data)
       IN  /\ r.err = ""
           /\ mode = "flat" => StackFrame_match(StackFrame_new, r.item).ret.k # "Err"
           /\ DecodesClean(r.rest, left)

\* this step drops the nested cursor f while it is open, the caller having
\* kept to the scopes so far
DropsOpen(f) ==
    /\ ret'.op = "drop" /\ ret'.frame = f
    /\ scoped /\ ~panicked'
    /\ frames[f].parent # 0 /\ Open(f) /\ ~HasOpenDescendant(f)

(***************************************************************************)
(* C3  Drain on abandonment (flat model): dropping the StackFrame of a     *)
(* Push before it returned end-of-sequence, the rest of its scope decoding *)
(* without error, leaves the shared cursor right behind the Pop matching   *)
(* that Push.                                                              *)
(***************************************************************************)
C3_DrainOnDrop ==
    [][\A f \in DOMAIN frames :
          (/\ mode = "flat" /\ DropsOpen(f)
           /\ DecodesClean(Suffix(Left), ScopeEnd(f)))
          => Left' = ScopeEnd(f)]_vars

(***************************************************************************)
(* C4  Drain on abandonment swallows errors: dropping a nested cursor      *)
(* (flat StackFrame, tree Collection) whose remaining scope holds an item  *)
(* that yields an error still consumes the whole scope: the shared cursor  *)
(* is not left in front of the end of that scope.                          *)
(***************************************************************************)
C4_DrainSwallowsErrors ==
    [][\A f \in DOMAIN frames :
          (/\ DropsOpen(f)
           /\ ~DecodesClean(Suffix(Left), ScopeEnd(f)))
          => Left' <= ScopeEnd(f)]_vars

(***************************************************************************)
(* C5  Only the innermost live cursor can be advanced: a next on a cursor  *)
(* consumes nothing from the shared byte cursor while a cursor handed out  *)
(* below it is live and has not returned end-of-sequence.                  *)
(***************************************************************************)
C5_InnermostOnly ==
    [][\A f \in DOMAIN frames :
          (ret'.op = "next" /\ ret'.frame = f /\ HasOpenDescendant(f))
          => Left' = Left]_vars

(***************************************************************************)
(* The items the last call consumed, read off the buffer.                  *)
(***************************************************************************)
\* the items of data that end with at least left bytes to go
RECURSIVE ItemsUpTo(_, _)
ItemsUpTo(data, left) ==
    IF Len(data) <= left \/ Item_parse(data).err # "" THEN <<>>
    ELSE <<Item_parse(data).item>> \o ItemsUpTo(Item_parse(data).rest, left)

\* the items the last call consumed, in order
Consumed == ItemsUpTo(Suffix(ret.from), Left)

\* the last call was a next whose last consumed item is of a kind in ts
NextEndedAt(ts) ==
    /\ ret.op = "next" /\ Consumed # <<>>
    /\ Consumed[Len(Consumed)].t \in ts

LastConsumed == Consumed[Len(Consumed)]

\* the states that hold usage slots: each live flat frame's, the tree parser's
States == IF mode = "flat" THEN {frames[f].st : f \in Live} ELSE {pst}

\* their trails
Trails == IF mode = "flat" THEN {frames[f].trail : f \in Live} ELSE {ptrail}

(***************************************************************************)
(* C6  Physical-range default (flat and tree): the Field returned for an   *)
(* Input or Output item has the current logical range, and as physical     *)
(* range the logical range when the current PhysicalMin and PhysicalMax    *)
(* are both 0 and the current physical range otherwise.  The stored state  *)
(* is not modified: the Input/Output arm returns the state it was given,   *)
(* and after the call the state still holds what the global items set.     *)
(***************************************************************************)
C6_PhysicalDefault ==
    /\ Returned("Field") =>
          LET st == StateOf(ret.frame)
              fld == ret.v.field
              dflt == st.physical_min = 0 /\ st.physical_max = 0
          IN  /\ NextEndedAt({"Input", "Output"})
              /\ fld.logical_min = st.logical_min
              /\ fld.logical_max = st.logical_max
              /\ fld.physical_min = IF dflt THEN st.logical_min ELSE st.physical_min
              /\ fld.physical_max = IF dflt THEN st.logical_max ELSE st.physical_max
              /\ (mode = "tree" \/ nested) => SameGlobals(st, GlobalsAt(Left))
    /\ \A st \in States : \A t \in {"Input", "Output"} :
          Match(st, Item(t, 0)).self = st

\* a Field with physical range -1..9 taken from the logical range, the stored
\* physical range being 0..0
C6_Witness ==
    /\ Returned("Field")
    /\ StateOf(ret.frame).physical_min = 0 /\ StateOf(ret.frame).physical_max = 0
    /\ ret.v.field.physical_min = -1 /\ ret.v.field.physical_max = 9

\* the Usage a pair makes: <<page, min, max>>
PairOut(first, second) ==
    IF first.kind = "UsageMin" THEN <<second.page, first.val, second.val>>
    ELSE <<second.page, second.val, first.val>>

\* tr[i] is the first of a pair: it does not complete a pair itself
RECURSIVE IsFirst(_, _)
IsFirst(tr, i) ==
    i = 1 \/ tr[i - 1].kind = tr[i].kind \/ ~IsFirst(tr, i - 1)

\* the descriptor holds no Main item up to the cursor
NoMainSoFar ==
    \A i \in 1..Len(ItemsUpTo(buf, Left)) : ItemsUpTo(buf, Left)[i].t \notin MainItems

(***************************************************************************)
(* C7  Usage pairing, as stated: within one frame, of a UsageMin and a     *)
(* UsageMax that follow one another with only non-Main items in between,   *)
(* the first emits nothing when it arrives and the second emits one Usage  *)
(* with ids min..=max on the page in effect, leaving both slots empty.     *)
(* Stated for the descriptors that hold no Main item up to the cursor, so  *)
(* that no Main item has a part in what the pair does.                     *)
(***************************************************************************)
C7_AnyPairing ==
    \A tr \in Trails : \A j \in 2..Len(tr) :
        (NoMainSoFar /\ IsFirst(tr, j - 1) /\ tr[j - 1].kind # tr[j].kind) =>
            /\ tr[j - 1].out = <<>>
            /\ tr[j].out = PairOut(tr[j - 1], tr[j])
            /\ tr[j].cleared

(***************************************************************************)
(* C7 (amended)  Usage pairing: within one frame, of a UsageMin and a      *)
(* UsageMax that follow one another with only non-Main items and no other  *)
(* UsageMin or UsageMax in between, the first having arrived while no      *)
(* usage slot was pending, the first emits nothing when it arrives and the *)
(* second emits exactly one Usage with ids min..=max on the page in effect *)
(* at that moment, leaving both slots empty; the Usage is the value the    *)
(* call returns.                                                           *)
(***************************************************************************)
C7_UsagePairing ==
    /\ \A tr \in Trails : \A j \in 1..Len(tr) :
          /\ tr[j].clean => tr[j].out = <<>> /\ ~tr[j].cleared
          /\ (j > 1 /\ tr[j - 1].clean /\ tr[j - 1].kind # tr[j].kind) =>
                /\ tr[j].out = PairOut(tr[j - 1], tr[j])
                /\ tr[j].cleared
    /\ (NextEndedAt({"UsageMin", "UsageMax"}) /\ frames[ret.frame].live) =>
          LET tr == IF mode = "flat" THEN frames[ret.frame].trail ELSE ptrail
              e == tr[Len(tr)]
          IN  /\ tr # <<>>
              /\ e.kind = LastConsumed.t /\ e.val = LastConsumed.a
              /\ IF e.out = <<>> THEN ret.v.k \in {"None", "Err"}
                 ELSE /\ Returned("Usage")
                      /\ e.out = <<ret.v.page, ret.v.lo, ret.v.hi>>
                      /\ e.page = StateOf(ret.frame).usage_page

\* UsageMin(1) arrived with no slot pending, a Usage16 was returned in
\* between, and the call that met UsageMax(3) returned Usage 1..=3
C7_Witness ==
    /\ Returned("Usage") /\ ret.v.lo = 1 /\ ret.v.hi = 3
    /\ NextEndedAt({"UsageMax"})
    /\ Len(Consumed) = 1
    /\ LET doc == ItemsUpTo(buf, Left)
       IN  Len(doc) = 3 /\ doc[1].t = "UsageMin" /\ doc[2].t = "Usage16"
    /\ \E tr \in Trails :
          /\ Len(tr) = 2 /\ tr[1].clean /\ tr[1].kind = "UsageMin"
          /\ tr[2].out = <<ret.v.page, 1, 3>>

(***************************************************************************)
(* C8  Usage16(u) makes next return Usage{page: current usage_page,        *)
(* ids: u..=u} at once, whatever is pending, and changes neither the       *)
(* pending usage slots nor the global state.                               *)
(***************************************************************************)
C8_Usage16Immediate ==
    /\ \A st \in States : \A u \in {0, 4, 65535} :
          LET m == Match(st, Item("Usage16", u))
          IN  m.brk /\ m.self = st /\ m.ret = RetUsage(st.usage_page, u, u)
    /\ ret.op = "next" =>
          \A i \in 1..Len(Consumed) : Consumed[i].t = "Usage16" =>
              /\ i = Len(Consumed)
              /\ Returned("Usage")
              /\ ret.v.page = StateOf(ret.frame).usage_page
              /\ ret.v.lo = Consumed[i].a /\ ret.v.hi = Consumed[i].a
    /\ (NextEndedAt({"Usage16"}) /\ (mode = "tree" \/ nested)) =>
          SameGlobals(StateOf(ret.frame), GlobalsAt(Left))

\* Usage16(4) returned at once on page 3 while UsageMin(1) is pending, and
\* UsageMin(1) is pending still
C8_Witness ==
    /\ NextEndedAt({"Usage16"}) /\ Returned("Usage")
    /\ ret.v.page = 3 /\ ret.v.lo = 4 /\ ret.v.hi = 4
    /\ StateOf(ret.frame).usage_min = <<1>>
    /\ \E tr \in Trails : Len(tr) = 1 /\ tr[1].kind = "UsageMin" /\ tr[1].val = 1

(***************************************************************************)
(* C9  A lone pending usage is dropped at a Main item: when a Field is     *)
(* returned for an Input or Output item, no UsageMin or UsageMax stays     *)
(* pending, so none can pair with a UsageMax or UsageMin behind the item.  *)
(***************************************************************************)
C9_LonePendingDropped ==
    Returned("Field") =>
        /\ StateOf(ret.frame).usage_min = <<>>
        /\ StateOf(ret.frame).usage_max = <<>>

\* the items whose arm returns a value whatever the state
Emitting == {"Usage16", "Input", "Output"}

\* the value of the last call is caused by the last item that call consumed
CausedByLast ==
    /\ Returned("Field") =>
          /\ NextEndedAt({"Input", "Output"})
          /\ ret.v.field.is_input = (LastConsumed.t = "Input")
          /\ ret.v.field.flags = LastConsumed.a
    /\ Returned("Usage") =>
          /\ NextEndedAt({"Usage16", "UsageMin", "UsageMax"})
          /\ LastConsumed.t \in {"Usage16", "UsageMin"} => ret.v.lo = LastConsumed.a
          /\ LastConsumed.t \in {"Usage16", "UsageMax"} => ret.v.hi = LastConsumed.a
    /\ ret.op = "next" =>
          \A i \in 1..(Len(Consumed) - 1) : Consumed[i].t \notin Emitting

NestAlphabet ==
    {<<161, 1>>, <<161, 0, 9, 2>>, <<192>>, <<192, 192>>, <<129, 2>>, <<25, 1>>,
     <<41, 3>>}
InitNest == InitWith({"flat", "tree"}, NestAlphabet, MaxItems)
SpecNest == InitNest /\ [][Next]_vars

\* data is well-formed at depth open collections: every item decodes and has
\* an arm that is no error in the flat interpreter, there is no Push or Pop,
\* and Collection and EndCollection are properly nested
RECURSIVE WellNested(_, _)
WellNestedItem(r, depth) ==
    /\ r.err = ""
    /\ r.item.t \notin {"Push", "Pop"}
    /\ StackFrame_match(StackFrame_new, r.item).ret.k # "Err"
    /\ CASE r.item.t = "Collection" -> WellNested(r.rest, depth + 1)
         [] r.item.t = "EndCollection" ->
                depth > 0 /\ WellNested(r.rest, depth - 1)
         [] OTHER -> WellNested(r.rest, depth)

WellNested(data, depth) ==
    IF data = <<>> THEN depth = 0 ELSE WellNestedItem(Item_parse(data), depth)

\* what draining a flat cursor in state self over data gives: one entry for
\* each call of next up to the first that returns None or an error, with the
\* value v, the bytes left before the call and after it
RECURSIVE FlatTrace(_, _)
FlatTraceFrom(r, data) ==
    IF r.ret.k \in {"None", "Err"}
    THEN <<[v |-> r.ret, from |-> Len(data), left |-> Len(r.data)]>>
    ELSE <<[v |-> r.ret, from |-> Len(data), left |-> Len(r.data)]>>
         \o FlatTrace(r.self, r.data)

FlatTrace(self, data) == FlatTraceFrom(StackFrame_next(self, data), data)

\* the last call is the call e of a trace; a call that follows the last of the
\* trace consumes nothing
IsCallOf(e, last) ==
    /\ ret.op = "next" /\ ret.v = e.v /\ Left = e.left
    /\ ret.from = e.from \/ (last /\ ret.from = Left)

ObservedIn(tr) == \E k \in 1..Len(tr) : IsCallOf(tr[k], k = Len(tr))

\* the value of a Collection or EndCollection item in the flat model
NestValue(item) ==
    IF item.t = "Collection" THEN RetCollection(<<item.a, item.b>>)
    ELSE RetEndCollection

\* how many of the first n entries of the trace tr carry a value of kind k
RECURSIVE CountKind(_, _, _)
CountKind(tr, n, k) ==
    IF n = 0 THEN 0
    ELSE CountKind(tr, n - 1, k) + (IF tr[n].v.k = k THEN 1 ELSE 0)

(***************************************************************************)
(* C11  Collection nesting balance (flat model): draining the flat cursor  *)
(* over a well-formed descriptor (Collection/EndCollection properly        *)
(* nested, no Push/Pop, no item that fails) ends with end-of-sequence at   *)
(* the end of the buffer and yields one Collection(kind) value for each    *)
(* Collection item and one EndCollection value for each EndCollection      *)
(* item, in document order; so the two counts are equal at the end and no  *)
(* prefix of the values holds more EndCollection than Collection values.   *)
(* Every call of next the caller makes is a call of that drain.            *)
(***************************************************************************)
C11_NestingBalance ==
    (mode = "flat" /\ WellNested(buf, 0)) =>
        LET tr == FlatTrace(StackFrame_new, buf)
            IsNestEntry(e) == e.v.k \in {"Collection", "EndCollection"}
            IsNestItem(it) == it.t \in {"Collection", "EndCollection"}
            vals == SelectSeq(tr, IsNestEntry)
            items == SelectSeq(ItemsUpTo(buf, 0), IsNestItem)
        IN  /\ tr[Len(tr)].v.k = "None" /\ tr[Len(tr)].left = 0
            /\ Len(vals) = Len(items)
            /\ \A i \in 1..Len(vals) : vals[i].v = NestValue(items[i])
            /\ CountKind(tr, Len(tr), "EndCollection")
                  = CountKind(tr, Len(tr), "Collection")
            /\ \A n \in 0..Len(tr) :
                  CountKind(tr, n, "EndCollection") <= CountKind(tr, n, "Collection")
            /\ ret.op = "next" => ObservedIn(tr)

\* the flat cursor was drained over Collection(Application),
\* Collection(Physical), Usage16(2), two EndCollection: the last call met the
\* second EndCollection at the end of the buffer
C11_Witness ==
    /\ mode = "flat" /\ buf = <<161, 1, 161, 0, 9, 2, 192, 192>>
    /\ Returned("EndCollection") /\ Left = 0 /\ ret.from = 1
    /\ nested

(***************************************************************************)
(* Collections within collections for the tree interpreter, in longer      *)
(* descriptors.                                                            *)
(***************************************************************************)
\* Collection(Application), EndCollection, Usage16(2)
TreeDrainAlphabet == {<<161, 1>>, <<192>>, <<9, 2>>}
InitTreeDrain == InitWith({"tree"}, TreeDrainAlphabet, MaxItems + 2)
SpecTreeDrain == InitTreeDrain /\ [][NextTree]_vars

\* the scope data starts in, depth scopes being open inside it, has its closer
RECURSIVE ScopeCloses(_, _)
ScopeClosesAt(fr, depth) ==
    /\ ~fr.trunc
    /\ IF fr.tag = Opener THEN ScopeCloses(fr.rest, depth + 1)
       ELSE IF fr.tag = Closer
       THEN depth = 0 \/ ScopeCloses(fr.rest, depth - 1)
       ELSE ScopeCloses(fr.rest, depth)

ScopeCloses(data, depth) == data # <<>> /\ ScopeClosesAt(Framing(data), depth)

\* the last call was a next on a Collection sub-cursor, the caller having
\* kept to the scopes so far, and the scope of the sub-cursor decodes and has
\* its EndCollection
ScopedCollectionCall ==
    /\ mode = "tree" /\ scoped /\ ret.op = "next"
    /\ frames[ret.frame].kind = "Collection"
    /\ ScopeCloses(Suffix(frames[ret.frame].born), 0)
    /\ DecodesClean(Suffix(frames[ret.frame].born), ScopeEnd(ret.frame))

\* this step is the call op on the Collection sub-cursor c, which has
\* returned end-of-sequence before
OnDrained(c, op) ==
    /\ mode = "tree" /\ frames[c].kind = "Collection" /\ frames[c].live
    /\ frames[c].done
    /\ ret'.op = op /\ ret'.frame = c

(***************************************************************************)
(* C12  Collection scoping (tree model): a Collection item yields a        *)
(* Collection value, a sub-cursor that starts right behind the item; the   *)
(* values of the sub-cursor come from the items between that item and its  *)
(* matching EndCollection, and it returns end-of-sequence exactly at that  *)
(* EndCollection; no EndCollection value is ever returned.  Once the       *)
(* sub-cursor returned end-of-sequence it yields no further items, and     *)
(* letting go of it moves nothing, so that the parent continues with the   *)
(* first item behind that EndCollection.                                   *)
(***************************************************************************)
C12_CollectionScoping ==
    /\ [](/\ mode = "tree" => ret.v.k # "EndCollection"
          /\ (mode = "tree" /\ Returned("Collection")) =>
                /\ NextEndedAt({"Collection"})
                /\ frames[ret.child].kind = "Collection"
                /\ frames[ret.child].parent = ret.frame
                /\ frames[ret.child].born = Left
          /\ ScopedCollectionCall =>
                /\ Left >= ScopeEnd(ret.frame)
                /\ ret.v.k = "None" <=> (Left = ScopeEnd(ret.frame)))
    /\ [][\A c \in DOMAIN frames :
            /\ OnDrained(c, "next") => (ret'.v.k = "None" /\ Left' = Left)
            /\ (scoped /\ OnDrained(c, "drop")) => Left' = Left]_vars

(***************************************************************************)
(* C13  Drain on abandonment (tree model): dropping a Collection           *)
(* sub-cursor before it returned end-of-sequence, the rest of its scope    *)
(* decoding without error, leaves the shared index right behind the        *)
(* EndCollection that matches its Collection item, collections nested      *)
(* inside being skipped as a unit; the parent's next value then comes from *)
(* the first item behind that EndCollection.                               *)
(***************************************************************************)
C13_TreeDrainOnDrop ==
    [][\A f \in DOMAIN frames :
          (/\ mode = "tree" /\ DropsOpen(f)
           /\ frames[f].kind = "Collection"
           /\ ScopeCloses(Suffix(frames[f].born), 0)
           /\ DecodesClean(Suffix(Left), ScopeEnd(f)))
          => (Left' = ScopeEnd(f) /\ index' = Len(buf) - ScopeEnd(f))]_vars

(***************************************************************************)
(* The tree model's output, flattened depth-first.                         *)
(***************************************************************************)
\* how many cursors are above cursor c: 0 for the cursor of iter
RECURSIVE CursorDepth(_)
CursorDepth(c) ==
    IF frames[c].parent = 0 THEN 0 ELSE 1 + CursorDepth(frames[c].parent)

\* how many collections of items are open behind the last of them
RECURSIVE OpenCollections(_, _)
OpenCollections(items, n) ==
    IF n = 0 THEN 0
    ELSE OpenCollections(items, n - 1)
         + (CASE items[n].t = "Collection" -> 1
              [] items[n].t = "EndCollection" -> -1
              [] OTHER -> 0)

\* how many collections of the descriptor are open where left bytes are to go
DepthAt(left) == OpenCollections(ItemsUpTo(buf, left), Len(ItemsUpTo(buf, left)))

\* the value of the last call of a tree cursor as the flat model names it:
\* the end-of-sequence of a sub-cursor at its EndCollection is EndCollection
Flattened ==
    IF ret.v.k = "None" /\ NextEndedAt({"EndCollection"}) THEN RetEndCollection
    ELSE ret.v

\* the tree cursors were drained depth-first so far, every sub-cursor kept
TreeDrained ==
    /\ mode = "tree" /\ nested
    /\ \A f \in DOMAIN frames : frames[f].live

ItemAlphabet ==
    {<<133, 1>>, <<101, 1>>, <<85, 1>>, <<177, 2>>, <<11, 1, 0, 2, 0>>,
     <<57, 1>>, <<121, 1>>, <<169, 0>>, <<240>>, <<9, 2>>}
InitItems == InitWith({"flat", "tree"}, ItemAlphabet, MaxItems)
SpecItems == InitItems /\ [][Next]_vars

\* the items the flat interpreter skips without a value
SkippedItems == {"ReportId", "Unit", "UnitExponent"}

\* the items the flat interpreter has no transition for
NoTransitionItems ==
    {"Feature", "Usage32", "DesignatorIndex", "DesignatorMin", "DesignatorMax",
     "StringIndex", "StringMin", "StringMax", "Delimiter", "Unknown"}

(***************************************************************************)
(* C15  The tree model keeps the flat model's transitions for every item   *)
(* other than Push and Pop: a call that consumes a ReportId, Unit or       *)
(* UnitExponent returns no value for it and goes on to the next item, a    *)
(* call that meets an item with no transition (Feature, Usage32,           *)
(* Designator*, String*, Delimiter, Unknown) returns the error             *)
(* UnexpectedItem carrying that item, and no call of next on a tree cursor *)
(* aborts.                                                                 *)
(***************************************************************************)
C15_TreeKeepsTransitions ==
    mode = "tree" =>
        /\ ~panicked /\ ret.v.k # "Panic"
        /\ ret.op = "next" =>
              \A i \in 1..Len(Consumed) :
                  /\ Consumed[i].t \in SkippedItems =>
                        (i < Len(Consumed) \/ ret.v.k \in {"None", "Err"})
                  /\ Consumed[i].t \in NoTransitionItems =>
                        /\ i = Len(Consumed)
                        /\ ret.v = RetErr("UnexpectedItem", Consumed[i])

(***************************************************************************)
(* Buffers of arbitrary bytes, for the item decoder and the flat           *)
(* interpreter.                                                            *)
(***************************************************************************)
\* the long-item prefix; 1: a short prefix of an unknown tag with one data
\* byte, or a long item's length; 0xf0: a short prefix of an unknown tag with
\* no data, or a long item's tag; a Usage prefix with two data bytes; a Usage
\* prefix with four data bytes and the first of them; an EndCollection prefix
\* with one data byte; Push; Pop
ByteAlphabet ==
    {<<254>>, <<1>>, <<240>>, <<10>>, <<11, 1>>, <<193>>, <<164>>, <<180>>}
InitBytes == InitWith({"flat", "item"}, ByteAlphabet, MaxItems + 1)
NextBytes == NextFlat \/ NextItem
SpecBytes == InitBytes /\ [][NextBytes]_vars

\* &data[from..] panics when from is past the end of data
SliceAborts(data, from) == from > Len(data)

\* what a call can return without a crash
TypedResults ==
    IF mode = "item" THEN {"None", "Err", "Item"}
    ELSE {"None", "Err", "Collection", "EndCollection", "Field", "Usage",
          "StackFrame"}

TypedErrors ==
    IF mode = "item" THEN {"Truncated", "UnexpectedData"}
    ELSE {"Truncated", "UnexpectedData", "UnexpectedItem"}

QEMU_USB_TABLET ==
    <<5, 1, 9, 2, 161, 1, 9, 1, 161, 0, 5, 9, 25, 1, 41,
      3, 21, 0, 37, 1, 149, 3, 117, 1, 129, 2, 149, 1, 117, 5,
      129, 1, 5, 1, 9, 48, 9, 49, 21, 0, 38, 255, 127, 53, 0,
      70, 255, 127, 117, 16, 149, 2, 129, 2, 5, 1, 9, 56, 21, 129,
      37, 127, 53, 0, 69, 0, 117, 8, 149, 1, 129, 6, 192, 192>>

FixturePrefixes ==
    {SubSeq(QEMU_USB_TABLET, 1, n) : n \in 1..Len(QEMU_USB_TABLET)}
InitFixture == InitWith({"flat", "item"}, FixturePrefixes, 1)
SpecFixture == InitFixture /\ [][NextBytes]_vars

\* what test::qemu_usb_tablet asserts of the flat cursor, call by call
ExpectedFlat ==
    <<RetUsage(1, 2, 2),
      RetCollection(<<"Application", 0>>),
      RetUsage(1, 1, 1),
      RetCollection(<<"Physical", 0>>),
      RetUsage(9, 1, 3),
      RetField(Field(TRUE, 2, 0, 1, 0, 1, 3, 1)),
      RetField(Field(TRUE, 1, 0, 1, 0, 1, 1, 5)),
      RetUsage(1, 48, 48),
      RetUsage(1, 49, 49),
      RetField(Field(TRUE, 2, 0, 32767, 0, 32767, 2, 16)),
      RetUsage(1, 56, 56),
      RetField(Field(TRUE, 6, -127, 127, -127, 127, 1, 8)),
      RetEndCollection,
      RetEndCollection,
      RetNone>>

(***************************************************************************)
(* C17  Canonical fixture, flat model: draining the flat cursor over the   *)
(* QEMU USB tablet descriptor yields exactly Usage(1, 2..=2),              *)
(* Collection(Application), Usage(1, 1..=1), Collection(Physical),         *)
(* Usage(9, 1..=3), Field(flags 0b010, logical 0..1, physical 0..1, count  *)
(* 3, size 1), Field(flags 0b1, logical 0..1, physical 0..1, count 1,      *)
(* size 5), Usage(1, 0x30), Usage(1, 0x31), Field(flags 0b010, logical     *)
(* 0..0x7fff, physical 0..0x7fff, count 2, size 16), Usage(1, 0x38),       *)
(* Field(flags 0b110, logical -0x7f..0x7f, physical -0x7f..0x7f, count 1,  *)
(* size 8), EndCollection, EndCollection, then end-of-sequence, every      *)
(* Field being an input field; and every call of next the caller makes on  *)
(* it is a call of that drain.                                             *)
(***************************************************************************)
C17_FixtureFlat ==
    (mode = "flat" /\ buf = QEMU_USB_TABLET) =>
        LET tr == FlatTrace(StackFrame_new, buf)
        IN  /\ [i \in 1..Len(tr) |-> tr[i].v] = ExpectedFlat
            /\ tr[Len(tr)].left = 0
            /\ ret.op = "next" => ObservedIn(tr)

\* the cursor was drained over the fixture by calls of next alone: the last
\* call returned end-of-sequence at the end of the buffer
C17_Witness ==
    /\ mode = "flat" /\ buf = QEMU_USB_TABLET
    /\ nested /\ ret.op = "next" /\ ret.v = RetNone
    /\ ret.from = 0 /\ Left = 0

(***************************************************************************)
(* The framing of an item as HID 1.11 (6.2.2.2, 6.2.2.3) has it.           *)
(***************************************************************************)
\* the payload length a short prefix p declares: 0, 1, 2 or 4 bytes
ShortPayloadLen(p) ==
    CASE p % 4 = 0 -> 0
      [] p % 4 = 1 -> 1
      [] p % 4 = 2 -> 2
      [] p % 4 = 3 -> 4

\* data starts with a short item that is there in full
ShortItemAt(data) ==
    /\ data # <<>> /\ data[1] # LONG_ITEM_PREFIX
    /\ Len(data) >= 1 + ShortPayloadLen(data[1])

\* the data the last call of the item iterator decoded
DecodedFrom == Suffix(ret.from)

\* decoding data uses the tag p & 0xFC of its prefix and the n bytes behind the
\* prefix as payload, and what it returns behind an item is data from 1 + n on
ShortFramed(data) ==
    LET n == ShortPayloadLen(data[1])
        tag == data[1] - (data[1] % 4)
        r == Item_parse(data)
    IN  /\ Framing(data).tag = tag
        /\ Framing(data).d = SubSeq(data, 2, 1 + n)
        /\ r = ItemOfTag(tag, SubSeq(data, 2, 1 + n), SliceFrom(data, 1 + n))
        /\ r.err \in {"", "UnexpectedData"}
        /\ r.err = "" => r.rest = SliceFrom(data, 1 + n)

(***************************************************************************)
(* C18  Short-item framing, as stated: for every buffer whose first byte p *)
(* is not 0xFE and that holds at least 1+n bytes, n being 0, 1, 2 or 4 for *)
(* p & 3 = 0, 1, 2, 3, item decoding uses tag p & 0xFC and the n bytes     *)
(* behind the prefix as payload and returns the remaining buffer starting  *)
(* exactly 1+n bytes in, so that a step of the item iterator consumes      *)
(* exactly the 1+n bytes of the item.                                      *)
(***************************************************************************)
C18_ShortFramingAlways ==
    /\ (mode \in {"flat", "item"} /\ ShortItemAt(pdata)) =>
          /\ ShortFramed(pdata)
          /\ Item_parse(pdata).err = ""
    /\ (mode = "item" /\ ret.op = "next" /\ ShortItemAt(DecodedFrom)) =>
          /\ ret.v.k = "Item"
          /\ Left = ret.from - (1 + ShortPayloadLen(DecodedFrom[1]))

(***************************************************************************)
(* C18 (amended)  Short-item framing: for every buffer whose first byte p  *)
(* is not 0xFE and that holds at least 1+n bytes, n being 0, 1, 2 or 4 for *)
(* p & 3 = 0, 1, 2, 3, item decoding uses tag p & 0xFC and the n bytes     *)
(* behind the prefix as payload and is never Truncated; when the tag takes *)
(* a payload of that length it returns the item and the remaining buffer   *)
(* starting exactly 1+n bytes in, and the step of the item iterator        *)
(* consumes exactly these 1+n bytes; otherwise it returns UnexpectedData   *)
(* and the step of the item iterator consumes nothing.                     *)
(***************************************************************************)
C18_ShortFraming ==
    /\ (mode \in {"flat", "item"} /\ ShortItemAt(pdata)) => ShortFramed(pdata)
    /\ (mode = "item" /\ ret.op = "next" /\ ShortItemAt(DecodedFrom)) =>
          /\ ret.v.k \in {"Item", "Err"}
          /\ ret.v.k = "Item" =>
                /\ Left = ret.from - (1 + ShortPayloadLen(DecodedFrom[1]))
                /\ ret.v.item = Item_parse(DecodedFrom).item
          /\ ret.v.k = "Err" =>
                /\ ret.v.err = "UnexpectedData" /\ Left = ret.from

\* the item iterator decoded a Usage prefix with four data bytes behind it
\* into Usage32 and moved five bytes on; an item stands behind it
C18_Witness ==
    /\ mode = "item" /\ ret.op = "next" /\ ret.v.k = "Item"
    /\ DecodedFrom[1] = 11 /\ ret.v.item.t = "Usage32"
    /\ ret.from = Len(buf) /\ Left = ret.from - 5

\* the tags Item::parse knows
KnownTags ==
    {INPUT, OUTPUT, COLLECTION, FEATURE, END_COLLECTION, USAGE_PAGE, LOGI_MIN,
     LOGI_MAX, PHYS_MIN, PHYS_MAX, UNIT_EXP, UNIT, REPORT_SIZE, REPORT_ID,
     REPORT_COUNT, PUSH, POP, USAGE, USAGE_MIN, USAGE_MAX, DESIGNATOR_INDEX,
     DESIGNATOR_MIN, DESIGNATOR_MAX, STRING_INDEX, STRING_MIN, STRING_MAX,
     DELIMITER}

\* data starts with a long item that is there in full: the marker, the length
\* byte L, the tag byte and L payload bytes
LongItemAt(data) ==
    /\ Len(data) >= 3 /\ data[1] = LONG_ITEM_PREFIX
    /\ Len(data) >= 3 + data[2]

(***************************************************************************)
(* C19  Long-item framing: for a buffer that starts with the long-item     *)
(* marker 0xFE, a length byte L, a tag byte and L payload bytes, item      *)
(* decoding consumes exactly these 3+L bytes, the next item being decoded  *)
(* from the byte behind the payload, and an unknown tag yields             *)
(* Unknown{tag, data} with data the L payload bytes.                       *)
(***************************************************************************)
C19_LongFraming ==
    (mode = "item" /\ ret.op = "next" /\ LongItemAt(DecodedFrom)) =>
        /\ ret.v.k = "Item" => Left = ret.from - (3 + DecodedFrom[2])
        /\ DecodedFrom[3] \notin KnownTags =>
              /\ ret.v = RetItem(ItemUnknown(DecodedFrom[3],
                                   SubSeq(DecodedFrom, 4, 3 + DecodedFrom[2])))
              /\ pdata = SliceFrom(DecodedFrom, 3 + DecodedFrom[2])

\* the payload length the head of data declares: that of the prefix of a short
\* item, the length byte of a long item
DeclaredLen(data) ==
    IF data[1] = LONG_ITEM_PREFIX THEN data[2] ELSE ShortPayloadLen(data[1])

\* data is not empty and ends before the item at its head does: a long item's
\* length or tag byte is missing, or data is shorter than 1 + the declared
\* payload length
CutShort(data) ==
    /\ data # <<>>
    /\ \/ data[1] = LONG_ITEM_PREFIX /\ Len(data) < 3
       \/ Len(data) < 1 + DeclaredLen(data)

\* the tag values of a prefix byte (the upper six bits) and of a long item's
\* tag byte
PrefixTags == {4 * i : i \in 0..63}

\* data with the tag t at its head instead of its own: in the upper six bits of
\* a short prefix, in the tag byte of a long item
WithTag(data, t) ==
    IF data[1] # LONG_ITEM_PREFIX THEN [data EXCEPT ![1] = t + (data[1] % 4)]
    ELSE IF Len(data) >= 3 THEN [data EXCEPT ![3] = t]
    ELSE data

(***************************************************************************)
(* C20  Truncation detection: for every tag and every non-empty buffer     *)
(* shorter than 1 + the declared payload length, item decoding returns     *)
(* Truncated, never an item and never UnexpectedData; so it does for a     *)
(* long-item prefix whose length byte or tag byte is missing.  The step of *)
(* the item iterator on such a buffer returns Err(Truncated) and consumes  *)
(* nothing.                                                                *)
(***************************************************************************)
C20_Truncation ==
    /\ (mode = "item" /\ CutShort(pdata)) =>
          \A t \in PrefixTags :
              CutShort(WithTag(pdata, t)) =>
                  Item_parse(WithTag(pdata, t)) = PErr("Truncated")
    /\ (mode = "item" /\ ret.op = "next" /\ CutShort(DecodedFrom)) =>
          /\ ret.v = RetErr("Truncated", NoItem)
          /\ Left = ret.from

\* behind a decoded item the item iterator met a Usage prefix declaring four
\* bytes with only one byte left and returned Truncated, consuming nothing
C20_Witness ==
    /\ mode = "item" /\ ret.op = "next" /\ ret.from < Len(buf)
    /\ Len(DecodedFrom) = 2 /\ DecodedFrom[1] = 11
    /\ ret.v.k = "Err" /\ ret.v.err = "Truncated" /\ Left = ret.from

(***************************************************************************)
(* Single items of every tag and payload width, seen through the item      *)
(* iterator: a short item of each known tag and of two unknown ones with    *)
(* each of the four sizes, long items of some tags with 0 to 3 and with 5   *)
(* payload bytes, each followed by at most MaxItems - 2 further items.      *)
(***************************************************************************)
\* the tags whose payload decoder is d8u / d8, d16u, and d32u / d32i
U8Tags == {COLLECTION, REPORT_ID}
U16Tags == {USAGE_PAGE, USAGE_MIN, USAGE_MAX}
SignedTags == {LOGI_MIN, LOGI_MAX, PHYS_MIN, PHYS_MAX}
U32Tags ==
    {INPUT, OUTPUT, FEATURE, UNIT_EXP, UNIT, REPORT_SIZE, REPORT_COUNT,
     DESIGNATOR_INDEX, DESIGNATOR_MIN, DESIGNATOR_MAX, STRING_INDEX,
     STRING_MIN, STRING_MAX}

PayloadBytes == {0, 1, 129, 255}

\* the payloads of n bytes
Payloads(n) == [1..n -> PayloadBytes]

\* tags of the short items: the known ones and two Item::parse does not know
WidthTags == KnownTags \cup {12, 240}

\* the payloads of the size a short prefix of tag t declares; those of four
\* bytes for a tag decoded by d32u stay below 2^31
PayloadsOf(t, s) ==
    IF s = 3 /\ t \in U32Tags
    THEN {d \in Payloads(4) : d[4] < 128}
    ELSE Payloads(ShortSize(s))

ShortItems ==
    UNION {{<<t + s>> \o d : d \in PayloadsOf(t, s)} :
           t \in WidthTags, s \in 0..3}

LongTags == {USAGE, USAGE_PAGE, LOGI_MIN, DELIMITER, 240}

LongItems ==
    UNION {{<<LONG_ITEM_PREFIX, n, t>> \o d : d \in Payloads(n)} :
           t \in LongTags, n \in 0..3}
    \cup {<<LONG_ITEM_PREFIX, 5, t, b, b, b, b, b>> :
          t \in {INPUT, USAGE, USAGE_MAX, LOGI_MAX}, b \in {0, 255}}

WidthBuffers ==
    {i \o t : i \in ShortItems \cup LongItems,
              t \in Descriptors({<<9, 2>>}, MaxItems - 2)}

InitWidth == InitWith({"item"}, WidthBuffers, 1)
SpecWidth == InitWidth /\ [][NextItem]_vars

(***************************************************************************)
(* An item as HID 1.11 (6.2.2.2, 6.2.2.3) lays it out at the head of data: *)
(* its tag, its payload and its length in bytes.                           *)
(***************************************************************************)
\* an item stands at the head of data in full
ItemAt(data) == ShortItemAt(data) \/ LongItemAt(data)

TagAt(data) ==
    IF data[1] = LONG_ITEM_PREFIX THEN data[3] ELSE data[1] - (data[1] % 4)

PayloadAt(data) ==
    IF data[1] = LONG_ITEM_PREFIX THEN SubSeq(data, 4, 3 + data[2])
    ELSE SubSeq(data, 2, 1 + ShortPayloadLen(data[1]))

ItemLenAt(data) ==
    IF data[1] = LONG_ITEM_PREFIX THEN 3 + data[2]
    ELSE 1 + ShortPayloadLen(data[1])

\* the item iterator's last call decoded an item that is there in full
DecodedItem == mode = "item" /\ ret.op = "next" /\ ItemAt(DecodedFrom)

\* the payload d is one the width class of the tag accepts
Accepted(tag, d) ==
    CASE tag \in U8Tags -> Len(d) <= 1
      [] tag \in U16Tags -> Len(d) <= 2
      [] tag \in U32Tags \cup SignedTags \cup {USAGE} -> Len(d) <= 4
      [] tag = END_COLLECTION -> d = <<>>
      [] tag = DELIMITER -> d \in {<<0>>, <<1>>}
      [] OTHER -> TRUE

(***************************************************************************)
(* C21  Width validation: for every known tag, a payload that is there in  *)
(* full and that the width class of the tag does not accept makes item     *)
(* decoding return UnexpectedData and no item: the 16-bit tags UsagePage,  *)
(* UsageMin and UsageMax reject a payload of four bytes, EndCollection     *)
(* rejects every payload that is not empty, Delimiter rejects everything   *)
(* but a single byte 0 or 1.                                               *)
(***************************************************************************)
C21_WidthValidation ==
    (/\ DecodedItem
     /\ TagAt(DecodedFrom) \in KnownTags
     /\ ~Accepted(TagAt(DecodedFrom), PayloadAt(DecodedFrom))) =>
        ret.v = RetErr("UnexpectedData", NoItem)

\* the item of a tag of the u8 class that carries the value v
U8Item(tag, v) ==
    IF tag = COLLECTION
    THEN Item2("Collection", Collection_from_raw(v)[1], Collection_from_raw(v)[2])
    ELSE Item("ReportId", v)

(***************************************************************************)
(* C22  Unsigned narrow (u8) tags: for each tag of the u8 width class,     *)
(* Collection and ReportId, an empty payload decodes to the value 0, a     *)
(* payload of one byte decodes to that byte, and every longer payload      *)
(* yields UnexpectedData.                                                  *)
(***************************************************************************)
C22_UnsignedNarrow ==
    (DecodedItem /\ TagAt(DecodedFrom) \in U8Tags) =>
        LET d == PayloadAt(DecodedFrom)
        IN  /\ d = <<>> => ret.v = RetItem(U8Item(TagAt(DecodedFrom), 0))
            /\ Len(d) = 1 => ret.v = RetItem(U8Item(TagAt(DecodedFrom), d[1]))
            /\ Len(d) > 1 => ret.v = RetErr("UnexpectedData", NoItem)

\* the w low bytes of v, little-endian; a negative v in two's complement
RECURSIVE to_le_bytes(_, _)
to_le_bytes(v, w) ==
    IF w = 0 THEN <<>> ELSE <<v % 256>> \o to_le_bytes(v \div 256, w - 1)

\* v is a number of w bytes: unsigned, or signed in two's complement
FitsWidth(v, w, signed) ==
    CASE w = 0 -> v = 0
      [] w = 4 -> signed \/ v >= 0
      [] OTHER -> IF signed THEN -Pow2(8 * w - 1) <= v /\ v < Pow2(8 * w - 1)
                  ELSE 0 <= v /\ v < Pow2(8 * w)

\* the tags with a numeric payload of up to two or four bytes
WideTags == U16Tags \cup U32Tags \cup SignedTags

(***************************************************************************)
(* C23  Round-trip width decoding: for every numeric tag and every payload *)
(* width it accepts, the decoded value, encoded again little-endian at     *)
(* the same width (in two's complement for the signed tags LogicalMin,     *)
(* LogicalMax, PhysicalMin, PhysicalMax), gives the bytes of the payload:  *)
(* an unsigned payload is zero-extended, a signed one is sign-extended     *)
(* from its own top bit.                                                   *)
(***************************************************************************)
C23_RoundTrip ==
    (/\ DecodedItem
     /\ TagAt(DecodedFrom) \in WideTags
     /\ Accepted(TagAt(DecodedFrom), PayloadAt(DecodedFrom))) =>
        LET d == PayloadAt(DecodedFrom)
        IN  /\ ret.v.k = "Item"
            /\ to_le_bytes(ret.v.item.a, Len(d)) = d
            /\ FitsWidth(ret.v.item.a, Len(d), TagAt(DecodedFrom) \in SignedTags)

\* the item the Usage tag gives for the payload d of at most four bytes
UsageOf(d) ==
    CASE Len(d) <= 2 -> Item("Usage16", from_le_bytes(d))
      [] Len(d) = 3 -> Item2("Usage32", d[3], d[1] + 256 * d[2])
      [] Len(d) = 4 -> Item2("Usage32", d[3] + 256 * d[4], d[1] + 256 * d[2])

(***************************************************************************)
(* C24  Usage tag (0x08), dual interpretation: a payload of 0, 1 or 2      *)
(* bytes decodes to Usage16(id), id the zero-extended little-endian        *)
(* payload; a payload [a, b, c, d] of four bytes decodes to                *)
(* Usage32(page = c + 256 d, id = a + 256 b); a payload [a, b, c] of three *)
(* bytes decodes to Usage32(page = c, id = a + 256 b).                     *)
(***************************************************************************)
C24_UsageDual ==
    (/\ DecodedItem
     /\ TagAt(DecodedFrom) = USAGE
     /\ Len(PayloadAt(DecodedFrom)) <= 4) =>
        ret.v = RetItem(UsageOf(PayloadAt(DecodedFrom)))

(***************************************************************************)
(* C25  Unknown tags never abort the item stream: for every tag outside    *)
(* the known set and every payload that is there in full, item decoding    *)
(* returns Unknown{tag, data} with the raw tag and the bytes of the        *)
(* payload, never an error, and the cursor of the item iterator moves past *)
(* the item, so that the item behind it is decoded next.                   *)
(***************************************************************************)
C25_UnknownTags ==
    (DecodedItem /\ TagAt(DecodedFrom) \notin KnownTags) =>
        /\ ret.v = RetItem(ItemUnknown(TagAt(DecodedFrom), PayloadAt(DecodedFrom)))
        /\ pdata = SliceFrom(DecodedFrom, ItemLenAt(DecodedFrom))

(***************************************************************************)
(* The flat interpreter on items it has no transition for: one item of     *)
(* each such kind (Feature, Usage32, DesignatorIndex/Min/Max,              *)
(* StringIndex/Min/Max, Delimiter, an unknown tag) among UsagePage(3),     *)
(* UsageMin(1), Push, and UsageMin(1) Push as one.                         *)
(***************************************************************************)
MeetAlphabet ==
    {<<177, 2>>, <<11, 1, 0, 2, 0>>, <<57, 1>>, <<73, 1>>, <<89, 1>>, <<121, 1>>,
     <<137, 1>>, <<153, 1>>, <<169, 0>>, <<240>>, <<5, 3>>, <<25, 1>>, <<164>>,
     <<25, 1, 164>>}
InitMeet == InitWith({"flat"}, MeetAlphabet, MaxItems - 1)
SpecMeet == InitMeet /\ [][NextFlat]_vars

\* the items next passes without a value and without looking at the pending
\* usage slots
Silent == GlobalItems \cup SkippedItems

\* what is left of data at the first item that is not passed silently
RECURSIVE Met(_)
MetAfter(r, data) ==
    IF r.err # "" \/ r.item.t \notin Silent THEN data ELSE Met(r.rest)

Met(data) == IF data = <<>> THEN data ELSE MetAfter(Item_parse(data), data)

\* the state self after the silent items of data that stand before met
RECURSIVE Silenced(_, _, _)
SilencedBy(self, r, met) ==
    Silenced(IF r.item.t \in GlobalItems THEN GlobalArm(self, r.item).self ELSE self,
             r.rest, met)

Silenced(self, data, met) ==
    IF Len(data) <= Len(met) THEN self ELSE SilencedBy(self, Item_parse(data), met)

\* this step is a call of next on the flat cursor f that meets, at met, the
\* item r.item, one with no transition
MeetsUnexpected(f, met, r) ==
    /\ mode = "flat" /\ ret'.op = "next" /\ ret'.frame = f /\ ret'.from = Len(pdata)
    /\ met # <<>> /\ r.err = "" /\ r.item.t \in NoTransitionItems

\* what the claim says of such a call
UnexpectedGiven(f, met, r) ==
    /\ ret'.v = RetErr("UnexpectedItem", r.item)
    /\ frames'[f].st = Silenced(frames[f].st, pdata, met)
    /\ met = pdata => frames'[f].st = frames[f].st
    /\ pdata' = r.rest

UnexpectedAt(f, met) ==
    MeetsUnexpected(f, met, Item_parse(met)) =>
        UnexpectedGiven(f, met, Item_parse(met))

PopAlphabet == {<<164>>, <<180>>, <<5, 3>>, <<9, 2>>}
InitPop == InitWith({"flat"}, PopAlphabet, MaxItems + 1)
SpecPop == InitPop /\ [][NextFlat]_vars

\* this step is a call of next on the flat cursor f that meets, at met, the
\* item r.item, a Pop
MeetsPop(f, met, r) ==
    /\ mode = "flat" /\ ret'.op = "next" /\ ret'.frame = f /\ ret'.from = Len(pdata)
    /\ met # <<>> /\ r.err = "" /\ r.item.t = "Pop"

PopAt(f, met) ==
    MeetsPop(f, met, Item_parse(met)) =>
        /\ ret'.v = RetNone
        /\ ret'.child = 0
        /\ pdata' = SliceFrom(met, 1)

(***************************************************************************)
(* C27  Pop closes the current scope: when next on a flat cursor, the      *)
(* top-level one or one handed out by a Push, processes a Pop item, it     *)
(* returns the end of the sequence, with the shared byte cursor right      *)
(* behind the Pop item, and gives no Value for it.                         *)
(***************************************************************************)
C27_PopCloses ==
    [][\A f \in DOMAIN frames : PopAt(f, Met(pdata))]_vars

\* next on the top-level cursor returned the end of the sequence at a Pop
\* with items still behind it
C27_Witness ==
    /\ mode = "flat" /\ ret.op = "next" /\ ret.v = RetNone
    /\ ret.frame \in DOMAIN frames /\ frames[ret.frame].parent = 0
    /\ 0 < Left /\ Left < ret.from
    /\ buf[Len(buf) - Left] = POP

(***************************************************************************)
(* The items that give no value, for the flat interpreter: one chunk that  *)
(* sets all seven global fields (page 3, logical -1..9, physical 2..4,     *)
(* count 7, size 8), each global item alone with the value 1, ReportId,    *)
(* Unit and UnitExponent, UsageMin(1) Push as one, and Input(2).           *)
(***************************************************************************)
AllGlobals == <<5, 3, 21, 255, 37, 9, 53, 2, 69, 4, 149, 7, 117, 8>>

QuietAlphabet ==
    {AllGlobals, <<5, 1>>, <<21, 1>>, <<37, 1>>, <<53, 1>>, <<69, 1>>, <<149, 1>>,
     <<117, 1>>, <<133, 1>>, <<101, 1>>, <<85, 1>>, <<25, 1, 164>>, <<129, 2>>}
InitQuiet == InitWith({"flat"}, QuietAlphabet, MaxItems)
SpecQuiet == InitQuiet /\ [][NextFlat]_vars

\* the field of the frame a global item sets
GlobalField(t) ==
    CASE t = "UsagePage" -> "usage_page"
      [] t = "LogicalMin" -> "logical_min"
      [] t = "LogicalMax" -> "logical_max"
      [] t = "PhysicalMin" -> "physical_min"
      [] t = "PhysicalMax" -> "physical_max"
      [] t = "ReportCount" -> "report_count"
      [] t = "ReportSize" -> "report_size"

\* self after a global item overwrote its own field, after a ReportId, Unit or
\* UnitExponent item left it alone
Overwritten(self, item) ==
    IF item.t \in GlobalItems THEN [self EXCEPT ![GlobalField(item.t)] = item.a]
    ELSE self

\* self after the silent items of data that stand before met
RECURSIVE QuietFold(_, _, _)
QuietFoldBy(self, r, met) == QuietFold(Overwritten(self, r.item), r.rest, met)

QuietFold(self, data, met) ==
    IF Len(data) <= Len(met) THEN self ELSE QuietFoldBy(self, Item_parse(data), met)

\* this step is a call of next on the flat cursor f
NextOn(f) ==
    mode = "flat" /\ ret'.op = "next" /\ ret'.frame = f /\ ret'.from = Len(pdata)

\* a call that passes silent items up to met: at the end of the buffer or at an
\* item that does not decode it returns no value and the state is that of the
\* silent items; otherwise it goes on as r, a call that starts at met in the
\* state the silent items made
QuietGiven(f, self, met, r) ==
    /\ (met = <<>> \/ Item_parse(met).err # "") =>
          /\ ret'.v.k \in {"None", "Err"}
          /\ frames'[f].st = self
          /\ pdata' = met
    /\ ret'.v = r.ret
    /\ frames'[f].st = r.self
    /\ pdata' = r.data

QuietFrom(f, self, met) == QuietGiven(f, self, met, StackFrame_next(self, met))

QuietAt(f, met) ==
    (NextOn(f) /\ met # pdata) =>
        QuietFrom(f, QuietFold(frames[f].st, pdata, met), met)

(***************************************************************************)
(* C28  Items that emit nothing, flat model: UsagePage, LogicalMin,        *)
(* LogicalMax, PhysicalMin, PhysicalMax, ReportCount and ReportSize each   *)
(* overwrite exactly their own field of the current frame and leave the    *)
(* other six global fields and both pending usage slots as they were;      *)
(* ReportId, Unit and UnitExponent change no state at all; none of these   *)
(* ten items makes next return a Value: the call goes on to the item       *)
(* behind them.                                                            *)
(***************************************************************************)
C28_QuietItems ==
    [][\A f \in DOMAIN frames : QuietAt(f, Met(pdata))]_vars

\* a cursor handed out by Push with a pending UsageMin(1) passed all seven
\* global items in one call that ended at the end of the buffer: the seven
\* fields are set and the pending UsageMin is still there
C28_Witness ==
    /\ mode = "flat" /\ ret.op = "next" /\ ret.v = RetNone /\ Left = 0
    /\ ret.from = Len(AllGlobals)
    /\ ret.frame \in DOMAIN frames /\ frames[ret.frame].parent # 0
    /\ frames[ret.frame].st =
          [usage_page |-> 3, logical_min |-> -1, logical_max |-> 9,
           physical_min |-> 2, physical_max |-> 4, report_count |-> 7,
           report_size |-> 8, usage_min |-> <<1>>, usage_max |-> <<>>]

(***************************************************************************)
(* Fields under changing global state, for the flat interpreter: all seven *)
(* global fields set at once, Push LogicalMin(1) as one, ReportCount(1),   *)
(* Input(2), Output(6), Collection(Application), EndCollection, Pop.       *)
(***************************************************************************)
LatestAlphabet ==
    {AllGlobals, <<164, 21, 1>>, <<149, 1>>, <<129, 2>>, <<145, 6>>, <<161, 1>>,
     <<192>>, <<180>>}
InitLatest == InitWith({"flat"}, LatestAlphabet, MaxItems)
SpecLatest == InitLatest /\ [][NextFlat]_vars

\* self after the global items among items overwrote their fields in turn;
\* every other item leaves the global fields alone
RECURSIVE GlobalsAfter(_, _)
GlobalsAfter(self, items) ==
    IF items = <<>> THEN self
    ELSE GlobalsAfter(Overwritten(self, Head(items)), Tail(items))

\* the Field the last call returned is built from the item the call ended at
\* and from the global fields of the frame
FieldFromState ==
    Returned("Field") =>
        /\ NextEndedAt({"Input", "Output"})
        /\ ret.v.field.is_input = (LastConsumed.t = "Input")
        /\ ret.v.field.flags = LastConsumed.a
        /\ ret.v.field.logical_min = frames[ret.frame].st.logical_min
        /\ ret.v.field.logical_max = frames[ret.frame].st.logical_max
        /\ ret.v.field.report_count = frames[ret.frame].st.report_count
        /\ ret.v.field.report_size = frames[ret.frame].st.report_size

\* the global fields of the frame f over a step: a call of its next leaves
\* them as the global items it consumed set them, whatever else it consumed
\* and returned; no other step touches them while f lives
GlobalsKept(f) ==
    IF NextOn(f)
    THEN SameGlobals(frames'[f].st,
                     GlobalsAfter(frames[f].st, ItemsUpTo(pdata, Len(pdata'))))
    ELSE frames'[f].live => frames'[f].st = frames[f].st

\* a frame made in this step: by Parser::iter with every field 0, by a Push
\* with the global fields of the frame that met the Push
GlobalsInherited ==
    Len(frames') > Len(frames) =>
        IF ret'.op = "iter" THEN frames'[Len(frames')].st = StackFrame_new
        ELSE SameGlobals(frames'[Len(frames')].st, frames'[ret'.frame].st)

(***************************************************************************)
(* C29  Field reflects the latest global state: every Field returned for   *)
(* an Input or Output item has is_input true exactly for Input, flags      *)
(* equal to the payload of the item, and logical_min, logical_max,         *)
(* report_count and report_size equal to the payload of the most recent    *)
(* LogicalMin, LogicalMax, ReportCount and ReportSize item the emitting    *)
(* frame processed or inherited at its Push, 0 when there is none;         *)
(* Collection, EndCollection and the emission of a Field change no global  *)
(* field.                                                                  *)
(***************************************************************************)
C29_FieldLatest ==
    /\ [](mode = "flat" => FieldFromState)
    /\ [][mode = "flat" =>
             /\ \A f \in DOMAIN frames : GlobalsKept(f)
             /\ GlobalsInherited]_vars

\* a frame handed out by Push behind all seven global items processed
\* LogicalMin(1) and returns the Field of Output(6): logical_min is its own
\* 1, the other fields are the inherited 9, 7 and 8
C29_Witness ==
    /\ mode = "flat" /\ Returned("Field")
    /\ ret.frame \in DOMAIN frames /\ frames[ret.frame].parent # 0
    /\ ret.v.field = Field(FALSE, 6, 1, 9, 2, 4, 7, 8)

(***************************************************************************)
(* lib.rs: Field::extract_u32 (tree.rs has the same function).  A u32 is   *)
(* the set of the positions 0..31 of its bits that are 1, so that or is    *)
(* union and the shifts move positions.  Shifting a u32 by 32 or more is   *)
(* an arithmetic overflow: a build with overflow checks panics, a build    *)
(* without them shifts by the amount modulo 32.                            *)
(***************************************************************************)
Builds == {"checked", "unchecked"}

\* u32::from(b)
BitsOf(b) == {k \in 0..7 : (b \div Pow2(k)) % 2 = 1}

\* a right shift that shifts nothing
ShrNone(x, n) == x

\* x << n and x >> n for n < 32
Shl(x, n) == {k + n : k \in x} \cap 0..31
Shr(x, n) == {k - n : k \in {j \in x : j >= n}}

ExtNone == [k |-> "None", bits |-> {}]
ExtPanic == [k |-> "Panic", bits |-> {}]
ExtSome(v) == [k |-> "Some", bits |-> v]

\* v %= 1 << self.report_size: 1 << 32 overflows, and gives 1 << 0 unchecked
ExtractMask(v, size, build) ==
    IF size < 32 THEN ExtSome({k \in v : k < size})
    ELSE IF build = "checked" THEN ExtPanic
    ELSE ExtSome({})

\* the for loop from its turn i (counted from 0) on:
\* v |= u32::from(b) << i * 8 >> start % 8
RECURSIVE ExtractLoop(_, _, _, _, _, _)
ExtractLoop(bytes, i, start, v, size, build) ==
    IF i >= Len(bytes) THEN ExtractMask(v, size, build)
    ELSE IF i * 8 >= 32 /\ build = "checked" THEN ExtPanic
    ELSE ExtractLoop(bytes, i + 1, start,
                     v \cup Shr(Shl(BitsOf(bytes[i + 1]), (i * 8) % 32), start % 8),
                     size, build)

\* A u32 of 2^31 or more is written as the negative number of the same 32
\* bits, x - 2^32.  a + b of u32 for a small b: the sum passes 2^32 when a is
\* written negative and a + b is not, and a + b is then the wrapped sum
u32_overflows(a, b) == a < 0 /\ a + b >= 0

\* x / 8 of a u32
u32_div8(x) == IF x < 0 THEN Pow2(29) + x \div 8 ELSE x \div 8

\* report.get(start_i..end_i)?, then the loop and the mask
ExtractRange(size, report, start, start_i, end_i, build) ==
    IF start_i > end_i \/ end_i > Len(report) THEN ExtNone
    ELSE ExtractLoop(SubSeq(report, start_i + 1, end_i), 0, start, {},
                     size, build)

\* Field::extract_u32(&self, report, offset) of a field of report_size size:
\* offset + self.report_size and end + 7 are u32 additions, which panic on
\* overflow with overflow checks and wrap without
extract_u32(size, report, offset, build) ==
    IF size > 32 THEN ExtNone
    ELSE IF build = "checked" /\ (\/ u32_overflows(offset, size)
                                  \/ u32_overflows(offset + size, 7))
    THEN ExtPanic
    ELSE ExtractRange(size, report, offset, u32_div8(offset),
                      u32_div8(offset + size + 7), build)

\* the value extract_u32 returned, as the caller's last call
RetExtract(e, fld) == [Ret(e.k) EXCEPT !.bits = e.bits, !.field = fld]

(***************************************************************************)
(* The caller extracts a field of every size from 0 to 33 bits at every    *)
(* bit offset from reports of up to MaxReport bytes.                       *)
(***************************************************************************)
ReportBytes == {60, 165}
Reports == UNION {[1..n -> ReportBytes] : n \in 0..MaxReport}
ReportSizes == 0..33

InitExtract ==
    /\ mode = "extract"
    /\ buf \in Reports
    /\ pdata = <<>>
    /\ index = 0
    /\ pst = StackFrame_new
    /\ frames = <<>>
    /\ ret = Call("report", 0, 0, RetNone, 0)
    /\ iters = 0
    /\ panicked = FALSE
    /\ nested = TRUE
    /\ scoped = TRUE
    /\ ptrail = <<>>

ExtractGave(e, size, offset) ==
    /\ ret' = Call("extract_u32", 0, offset,
                   RetExtract(e, Field(TRUE, 2, 0, 0, 0, 0, 1, size)), 0)
    /\ panicked' = (e.k = "Panic")

\* f.extract_u32(report, offset) for a Field f of report_size size.  The
\* function reads the field and the report only, so one call on each report
\* shows every result
Extract(size, offset, build) ==
    /\ mode = "extract" /\ ~panicked /\ ret.op = "report"
    /\ ExtractGave(extract_u32(size, buf, offset, build), size, offset)
    /\ UNCHANGED <<mode, buf, pdata, index, pst, frames, iters, nested, scoped,
                   ptrail>>

NextExtract ==
    /\ mode = "extract" /\ ret.op = "report"
    /\ \E size \in ReportSizes, offset \in 0..(8 * MaxReport), build \in Builds :
          Extract(size, offset, build)

SpecExtract == InitExtract /\ [][NextExtract]_vars

\* bit n of the report, bit 0 being the lowest bit of the first byte
BitAt(report, n) == (report[n \div 8 + 1] \div Pow2(n % 8)) % 2 = 1

\* the last call extracted a field of size bits at bit offset ret.from
Extracted(size) == ret.op = "extract_u32" /\ ret.v.field.report_size = size

(***************************************************************************)
(* C30  Bit extraction result: for every Field with report_size from 1 to  *)
(* 32 and every bit offset whose span offset..offset + report_size lies    *)
(* inside the report, extract_u32 returns Some(v), where bit k of v is     *)
(* bit (offset + k) mod 8 of the report byte (offset + k) div 8 for        *)
(* k < report_size and every higher bit is 0: v is the span read           *)
(* LSB-first and masked to exactly report_size bits, also for              *)
(* report_size = 32 and for spans that touch five bytes.                   *)
(***************************************************************************)
C30_BitExtraction ==
    \A size \in 1..32 :
        (Extracted(size) /\ ret.from + size <= 8 * Len(buf)) =>
            /\ ret.v.k = "Some"
            /\ ret.v.bits = {k \in 0..(size - 1) : BitAt(buf, ret.from + k)}

\* (n as i32) << 32 - self.report_size >> 32 - self.report_size: the right
\* shift of an i32 copies bit 31 into the bits it frees; a shift by 32
\* overflows, and shifts by 0 unchecked
SignExtend(n, size, build) ==
    IF size = 0
    THEN IF build = "checked" THEN ExtPanic ELSE ExtSome(n)
    ELSE LET sh == 32 - size
             up == Shl(n, sh)
         IN  ExtSome(Shr(up, sh) \cup (IF 31 \in up THEN size..31 ELSE {}))

\* Field::extract_i32(&self, report, offset): extract_u32(..).map(..)
MapSignExtend(e, size, build) ==
    IF e.k = "Some" THEN SignExtend(e.bits, size, build) ELSE e

extract_i32(size, report, offset, build) ==
    MapSignExtend(extract_u32(size, report, offset, build), size, build)

(***************************************************************************)
(* The caller extracts unsigned and signed fields of every size from 0 to  *)
(* 33 bits from reports shorter than MaxReport bytes, at every bit offset  *)
(* up to one byte past the longest report and at offsets just below 2^32.  *)
(***************************************************************************)
SpanBytes == {75, 180}
Spans == UNION {[1..n -> SpanBytes] : n \in 0..(MaxReport - 1)}
FarOffsets == {-1, -8, -33, -40}
Offsets == 0..(8 * MaxReport) \cup FarOffsets

InitSpan ==
    /\ mode = "extract"
    /\ buf \in Spans
    /\ pdata = <<>>
    /\ index = 0
    /\ pst = StackFrame_new
    /\ frames = <<>>
    /\ ret = Call("report", 0, 0, RetNone, 0)
    /\ iters = 0
    /\ panicked = FALSE
    /\ nested = TRUE
    /\ scoped = TRUE
    /\ ptrail = <<>>

ExtractSignedGave(e, size, offset) ==
    /\ ret' = Call("extract_i32", 0, offset,
                   RetExtract(e, Field(TRUE, 2, 0, 0, 0, 0, 1, size)), 0)
    /\ panicked' = (e.k = "Panic")

\* f.extract_i32(report, offset) for a Field f of report_size size
ExtractSigned(size, offset, build) ==
    /\ mode = "extract" /\ ~panicked /\ ret.op = "report"
    /\ ExtractSignedGave(extract_i32(size, buf, offset, build), size, offset)
    /\ UNCHANGED <<mode, buf, pdata, index, pst, frames, iters, nested, scoped,
                   ptrail>>

NextSpan ==
    /\ mode = "extract" /\ ret.op = "report"
    /\ \E size \in ReportSizes, offset \in Offsets, build \in Builds :
          \/ Extract(size, offset, build)
          \/ ExtractSigned(size, offset, build)

SpecSpan == InitSpan /\ [][NextSpan]_vars

\* the last call was extract_u32 or extract_i32
ExtractCall == ret.op \in {"extract_u32", "extract_i32"}

\* the bytes that cover the bits ret.from .. ret.from + size lie outside the
\* report; an offset written negative is 2^32 + ret.from
OutsideReport(size) ==
    ret.from < 0 \/ (ret.from + size + 7) \div 8 > Len(buf)

(***************************************************************************)
(* C31  Bit extraction failure is an absence value: extract_u32 and        *)
(* extract_i32 return None, never a value and never an abort, whenever     *)
(* report_size > 32 or the byte range covering                             *)
(* offset..offset + report_size is not entirely inside the report; the     *)
(* report bytes and the Field are not modified.                            *)
(***************************************************************************)
C31_ExtractionNone ==
    /\ [](ExtractCall /\ ( \/ ret.v.field.report_size > 32
                           \/ OutsideReport(ret.v.field.report_size))
             => ret.v.k = "None" /\ ~panicked)
    /\ [][buf' = buf]_vars

\* the last call extracted a signed field of size bits at bit offset ret.from
ExtractedSigned(size) ==
    ret.op = "extract_i32" /\ ret.v.field.report_size = size

\* the i32 of bits v is the u32 of bits u sign-extended from bit size - 1:
\* its low size bits are u, which makes it congruent to u modulo 2^size, and
\* its bits from size - 1 up are all alike, which puts it in
\* -2^(size - 1) .. 2^(size - 1) - 1
SignExtended(v, u, size) ==
    /\ v \cap 0..(size - 1) = u
    /\ \A k \in size..31 : (k \in v) = ((size - 1) \in v)

\* extract_i32 returned the sign extension of what extract_u32 returns for
\* the same field, report and offset
SignedOfUnsigned(size) ==
    /\ ret.v.k = "Some"
    /\ \E build \in Builds :
          LET u == extract_u32(size, buf, ret.from, build)
          IN  u.k = "Some" /\ SignExtended(ret.v.bits, u.bits, size)

(***************************************************************************)
(* C32  Signed bit extraction: for every Field with report_size from 1 to  *)
(* 32 and every in-range bit offset, extract_i32 returns the extract_u32   *)
(* result sign-extended from bit report_size - 1: a value in               *)
(* -2^(report_size - 1) .. 2^(report_size - 1) - 1 that is congruent to    *)
(* the unsigned result modulo 2^report_size.                               *)
(***************************************************************************)
C32_SignedExtraction ==
    \A size \in 1..32 :
        (ExtractedSigned(size) /\ ~OutsideReport(size)) => SignedOfUnsigned(size)

(***************************************************************************)
(* C33  Bit extraction literal: for a Field with report_size = 5, the      *)
(* one-byte report 0xB4 (0b10110100) and bit offset 3, extract_u32 returns *)
(* Some(0b10110) = Some(22), the value of the shift-then-mask algorithm.   *)
(***************************************************************************)
C33_ExtractLiteral ==
    (buf = <<180>> /\ Extracted(5) /\ ret.from = 3) =>
        ret.v.k = "Some" /\ ret.v.bits = BitsOf(22)

C33_Witness ==
    /\ buf = <<180>> /\ Extracted(5) /\ ret.from = 3
    /\ ret.v.k = "Some" /\ ret.v.bits = {1, 2, 4}

\* what tests::qemu_usb_tablet of item.rs asserts of the item iterator, call
\* by call
ExpectedItems ==
    <<Item("UsagePage", 1), Item("Usage16", 2),
      Item2("Collection", "Application", 0),
      Item("Usage16", 1), Item2("Collection", "Physical", 0),
      Item("UsagePage", 9), Item("UsageMin", 1), Item("UsageMax", 3),
      Item("LogicalMin", 0), Item("LogicalMax", 1),
      Item("ReportCount", 3), Item("ReportSize", 1), Item("Input", 2),
      Item("ReportCount", 1), Item("ReportSize", 5), Item("Input", 1),
      Item("UsagePage", 1), Item("Usage16", 48), Item("Usage16", 49),
      Item("LogicalMin", 0), Item("LogicalMax", 32767),
      Item("PhysicalMin", 0), Item("PhysicalMax", 32767),
      Item("ReportSize", 16), Item("ReportCount", 2), Item("Input", 2),
      Item("UsagePage", 1), Item("Usage16", 56),
      Item("LogicalMin", -127), Item("LogicalMax", 127),
      Item("PhysicalMin", 0), Item("PhysicalMax", 0),
      Item("ReportSize", 8), Item("ReportCount", 1), Item("Input", 6),
      Item("EndCollection", 0), Item("EndCollection", 0)>>

\* the calls of next that drain the item iterator over data, up to the first
\* that returns end-of-stream or an error
RECURSIVE ItemTrace(_)
ItemTraceFrom(it, data) ==
    IF it.none
    THEN <<[v |-> RetNone, from |-> Len(data), left |-> Len(data)]>>
    ELSE IF it.r.err # ""
    THEN <<[v |-> RetErr(it.r.err, NoItem), from |-> Len(data),
            left |-> Len(data)]>>
    ELSE <<[v |-> RetItem(it.r.item), from |-> Len(data),
            left |-> Len(it.r.rest)]>> \o ItemTrace(it.r.rest)

ItemTrace(data) == ItemTraceFrom(Parser_next(data), data)

(***************************************************************************)
(* C34  Canonical fixture, item level: the item iterator over the QEMU USB *)
(* tablet descriptor yields exactly the item sequence asserted by the      *)
(* tests, starting UsagePage(1), Usage16(2), Collection(Application),      *)
(* Usage16(1), Collection(Physical), UsagePage(9), UsageMin(1),            *)
(* UsageMax(3), LogicalMin(0), LogicalMax(1), ReportCount(3),              *)
(* ReportSize(1), Input(0b010), with LogicalMax(0x7fff) decoded from       *)
(* 26 ff 7f and LogicalMin(-0x7f) from 15 81, ending with two              *)
(* EndCollection items and then end-of-stream, with no error; and every    *)
(* call of next the caller makes on it is a call of that sequence.         *)
(***************************************************************************)
C34_FixtureItems ==
    (mode = "item" /\ buf = QEMU_USB_TABLET) =>
        LET tr == ItemTrace(buf)
        IN  /\ [i \in 1..Len(tr) |-> tr[i].v] =
                  [i \in 1..Len(ExpectedItems) |-> RetItem(ExpectedItems[i])]
                  \o <<RetNone>>
            /\ tr[Len(tr)].left = 0
            /\ tr[21].v.item = Item("LogicalMax", 32767)
            /\ SubSeq(buf, Len(buf) - tr[21].from + 1, Len(buf) - tr[21].left)
                  = <<38, 255, 127>>
            /\ tr[29].v.item = Item("LogicalMin", -127)
            /\ SubSeq(buf, Len(buf) - tr[29].from + 1, Len(buf) - tr[29].left)
                  = <<21, 129>>
            /\ ret.op = "next" => ObservedIn(tr)

\* the iterator was drained over the fixture: the last call returned
\* end-of-stream at the end of the buffer
C34_Witness ==
    /\ mode = "item" /\ buf = QEMU_USB_TABLET
    /\ ret.op = "next" /\ ret.v = RetNone /\ Left = 0

\* this step drops the cursor f, which had returned end-of-sequence
DropsExhausted(f) ==
    /\ frames[f].live /\ frames[f].done
    /\ ret'.op = "drop" /\ ret'.frame = f

(***************************************************************************)
(* C35  Releasing an exhausted sub-cursor consumes nothing: dropping a     *)
(* flat StackFrame that has already returned end-of-sequence at its Pop,   *)
(* or a tree Collection that has already returned end-of-sequence at its   *)
(* EndCollection, leaves the shared byte cursor unchanged, so the parent's *)
(* next value still comes from the first item after that Pop or            *)
(* EndCollection.                                                          *)
(***************************************************************************)
C35_ExhaustedDrop ==
    [][\A f \in DOMAIN frames : DropsExhausted(f) => Left' = Left]_vars

(***************************************************************************)
(* Items that decode, items that set state, and items that do not decode:  *)
(* UsagePage(3), UsageMin(1), Push, Pop, Usage16(2), a Usage prefix that   *)
(* lacks its data byte at the end of the buffer (Truncated) and a          *)
(* Delimiter with data 2 (UnexpectedData).                                 *)
(***************************************************************************)
StuckAlphabet ==
    {<<5, 3>>, <<25, 1>>, <<164>>, <<180>>, <<9, 2>>, <<9>>, <<169, 2>>}
InitStuck == InitWith({"flat", "item"}, StuckAlphabet, MaxItems)
SpecStuck == InitStuck /\ [][NextBytes]_vars

DecodeErrors == {"Truncated", "UnexpectedData"}

\* the error of decoding the item at the head of data, "" if it decodes
DecodeError(data) ==
    IF data # <<>> /\ Item_parse(data).err \in DecodeErrors
    THEN Item_parse(data).err ELSE ""

\* left bytes before the end of data an item starts, and every item before
\* it decodes
RECURSIVE ItemBoundary(_, _)
ItemBoundary(data, left) ==
    \/ Len(data) = left
    \/ /\ Len(data) > left /\ Item_parse(data).err = ""
       /\ ItemBoundary(Item_parse(data).rest, left)

\* self after an item that next passes without returning: a global item
\* overwrites its field, a UsageMin or UsageMax is stashed as pending
AfterPassed(self, item) ==
    CASE item.t = "UsageMin" -> [self EXCEPT !.usage_min = <<item.a>>]
      [] item.t = "UsageMax" -> [self EXCEPT !.usage_max = <<item.a>>]
      [] OTHER -> Overwritten(self, item)

RECURSIVE AfterAllPassed(_, _)
AfterAllPassed(self, items) ==
    IF items = <<>> THEN self
    ELSE AfterAllPassed(AfterPassed(self, Head(items)), Tail(items))

\* this step is a call of next that returns Truncated or UnexpectedData
ReturnsDecodeError ==
    /\ ret'.op = "next" /\ ret'.from = Len(pdata)
    /\ ret'.v.k = "Err" /\ ret'.v.err \in DecodeErrors

\* such a call on the flat cursor f leaves the cursor on the offending item,
\* behind the items it processed, whose changes of state it keeps
FlatErrorAt(f) ==
    (NextOn(f) /\ ReturnsDecodeError) =>
        /\ ItemBoundary(pdata, Len(pdata'))
        /\ pdata' = SliceFrom(pdata, Len(pdata) - Len(pdata'))
        /\ DecodeError(pdata') = ret'.v.err
        /\ frames'[f].st =
              AfterAllPassed(frames[f].st, ItemsUpTo(pdata, Len(pdata')))

\* such a call on the item iterator leaves it on the offending item
ItemErrorAt ==
    (mode = "item" /\ ReturnsDecodeError) =>
        pdata' = pdata /\ DecodeError(pdata) = ret'.v.err

\* with an item that does not decode at the cursor, no step moves the cursor
\* and every call of next returns the item's error
StuckOn(err) ==
    err # "" =>
        /\ pdata' = pdata
        /\ ret'.op = "next" => ret'.v = RetErr(err, NoItem)

(***************************************************************************)
(* C36  A decode error does not move the cursor: when next on a flat       *)
(* cursor (or on the item iterator) returns Truncated or UnexpectedData,   *)
(* the shared byte cursor stays at the start of the offending item while   *)
(* state changes made by items processed earlier in the same call are      *)
(* kept; hence every later next call on any frame of that parser returns   *)
(* the same error again and never end-of-sequence.                         *)
(***************************************************************************)
C36_ErrorKeepsCursor ==
    [][/\ \A f \in DOMAIN frames : FlatErrorAt(f)
       /\ ItemErrorAt
       /\ StuckOn(DecodeError(pdata))]_vars

\* next on a flat cursor returned Truncated for the cut Usage item after it
\* had processed UsagePage(3) and UsageMin(1), which the frame keeps
C36_Witness ==
    /\ mode = "flat" /\ buf = <<5, 3, 25, 1, 9>>
    /\ ret.op = "next" /\ ret.from = 5 /\ ret.v = RetErr("Truncated", NoItem)
    /\ pdata = <<9>>
    /\ frames[ret.frame].st.usage_page = 3
    /\ frames[ret.frame].st.usage_min = <<1>>

(***************************************************************************)
(* Scopes of both interpreters and an item that fails: Push, Pop,          *)
(* Collection(Application), EndCollection, Usage16(2), and a Delimiter     *)
(* with data 2 (UnexpectedData).                                           *)
(***************************************************************************)
ProgressAlphabet == {<<164>>, <<180>>, <<161, 1>>, <<192>>, <<9, 2>>, <<169, 2>>}
InitProgress == InitWith({"flat", "tree"}, ProgressAlphabet, MaxItems)
SpecProgress == InitProgress /\ [][Next]_vars

\* this step is a call of next, on any cursor, that returns a value
ReturnsValue ==
    /\ ret'.op = "next" /\ ret'.from = Left
    /\ ret'.v.k \notin {"None", "Err", "Panic"}

\* the drain loop of every drop the caller can make now comes to an end, and
\* leaves the cursor where it was or further on
DrainsEnd ==
    /\ mode = "flat" =>
          \A f \in Live : Len(StackFrame_drop(frames[f].st, pdata)) <= Len(pdata)
    /\ (mode = "tree" /\ ~panicked /\ Live # {}) =>
          \/ Collection_drop(pst, index, buf).panic
          \/ Collection_drop(pst, index, buf).index \in index..Len(buf)

(***************************************************************************)
(* C37  Progress and termination of draining: every call to next that      *)
(* returns a Value has consumed at least one byte of the shared buffer,    *)
(* and no call gives a byte back, so over a buffer of n bytes the cursors  *)
(* of one parser together return at most n Values before a call returns    *)
(* end-of-sequence or an error; consequently the drain loop run when a     *)
(* StackFrame or Collection is dropped (drops of nested frames created     *)
(* while draining included) always terminates.                             *)
(***************************************************************************)
C37_DrainTerminates ==
    /\ [](DrainsEnd /\ Left <= Len(buf))
    /\ [](mode = "flat" => Len(FlatTrace(StackFrame_new, buf)) <= Len(buf) + 1)
    /\ [][/\ Left' <= Left
          /\ ReturnsValue => Left' < Left]_vars

\* a frame was dropped whose drain dropped a frame of its own: the drop of
\* the frame behind the first Push met the second Push, whose frame it
\* drained up to the Pop
C37_Witness ==
    /\ mode = "flat" /\ buf = <<164, 164, 180>>
    /\ ret.op = "drop" /\ ret.from = 2 /\ Left = 0

\* the shared byte cursor is a suffix of the buffer handed to parse: the cell
\* data of lib.rs is the slice buf[Len(buf) - Len(pdata)..], the cell index
\* of tree.rs stands for the slice buf[index..]
CursorIsSuffix ==
    /\ mode = "flat" => pdata = SliceFrom(buf, Len(buf) - Len(pdata))
    /\ mode = "tree" => index \in 0..Len(buf)

(***************************************************************************)
(* C38  Cursor invariant: in every reachable state of a flat or tree       *)
(* parser, after any sequence of next calls and drops on any of its        *)
(* cursors, the shared byte cursor is a suffix of the original buffer, it  *)
(* only ever moves forward, and the buffer contents are never modified.    *)
(***************************************************************************)
C38_CursorInvariant ==
    /\ [](mode \in {"flat", "tree"} => CursorIsSuffix)
    /\ [][/\ buf' = buf
          /\ mode = "flat" => Len(pdata') <= Len(pdata)
          /\ mode = "tree" => index' >= index]_vars

\* a tree cursor was handed out at the Collection, and its drop moved the
\* index behind the EndCollection, inside the buffer
C38_Witness ==
    /\ mode = "tree" /\ buf = <<161, 1, 192, 9, 2>>
    /\ ret.op = "drop" /\ ret.from = 3 /\ index = 3

(***************************************************************************)
(* Usage bounds of two values each, and scopes: UsageMin(1), UsageMin(5),  *)
(* UsageMax(3), UsageMax(7), Push, and UsageMin(1) Push as one.            *)
(***************************************************************************)
PendingAlphabet ==
    {<<25, 1>>, <<25, 5>>, <<41, 3>>, <<41, 7>>, <<164>>, <<25, 1, 164>>}
InitPending == InitWith({"flat", "tree"}, PendingAlphabet, MaxItems)
SpecPending == InitPending /\ [][Next]_vars

\* usage_min and usage_max of a state are not both pending
OnePending(self) == self.usage_min = <<>> \/ self.usage_max = <<>>

\* the item at the head of data is a UsageMin or UsageMax whose own slot in
\* self is taken
SecondOfKind(self, r) ==
    /\ r.err = ""
    /\ \/ r.item.t = "UsageMin" /\ self.usage_min # <<>>
       \/ r.item.t = "UsageMax" /\ self.usage_max # <<>>

\* self with the pending value of the item's kind replaced by the item's
Replaced(self, item) ==
    IF item.t = "UsageMin" THEN [self EXCEPT !.usage_min = <<item.a>>]
    ELSE [self EXCEPT !.usage_max = <<item.a>>]

\* a call of next on the flat cursor f that starts at such an item gives what
\* a call gives that starts behind the item with the pending value replaced
FlatReplacesGiven(f, r) ==
    (NextOn(f) /\ pdata # <<>> /\ SecondOfKind(frames[f].st, r)) =>
        QuietFrom(f, Replaced(frames[f].st, r.item), r.rest)

FlatReplaces(f) == FlatReplacesGiven(f, Item_parse(pdata))

\* the same of a call of next on a tree cursor, whose state is the parser's
TreeContinues(r) ==
    /\ ret'.v = r.ret
    /\ pst' = r.self
    /\ index' = r.index

TreeReplacesGiven(r) ==
    (/\ mode = "tree" /\ ret'.op = "next" /\ ret'.from = Left
     /\ index < Len(buf) /\ SecondOfKind(pst, r)) =>
        TreeContinues(Tree_next(Replaced(pst, r.item), Len(buf) - Len(r.rest), buf))

TreeReplaces == TreeReplacesGiven(Item_parse(Suffix(Left)))

(***************************************************************************)
(* C39  Pending-pair invariant: in every reachable state of every flat     *)
(* StackFrame (frames created by Push included) and of the tree parser,    *)
(* usage_min and usage_max are never both pending at once; a second        *)
(* UsageMin (or UsageMax) arriving while one of the same kind is pending   *)
(* replaces it without emitting anything.                                  *)
(***************************************************************************)
C39_PendingPair ==
    /\ [](/\ \A f \in DOMAIN frames : OnePending(frames[f].st)
          /\ OnePending(pst))
    /\ [][(\A f \in DOMAIN frames : FlatReplaces(f)) /\ TreeReplaces]_vars

\* a frame made at a Push inherited the pending UsageMin(1), replaced it by
\* UsageMin(5) and paired that with UsageMax(3)
C39_Witness ==
    /\ mode = "flat" /\ buf = <<25, 1, 164, 25, 5, 41, 3>>
    /\ ret.op = "next" /\ ret.from = 4 /\ Left = 0
    /\ frames[ret.frame].parent # 0
    /\ ret.v = RetUsage(0, 5, 3)

=============================================================================
